---- MODULE Spec2Model ----
(***************************************************************************)
(* Model of the happy CLI session runtime, packages/happy-cli/src/claude/  *)
(* runClaude.ts: the remote-message pump (session.onUserMessage feeding    *)
(* MessageQueue2), the control-mode bit, the offline fallback and the      *)
(* shutdown paths (post-loop shutdown and the cleanup handler).            *)
(***************************************************************************)
EXTENDS Integers, Sequences, FiniteSets, TLC

VARIABLES
    pc,               \* position of runClaude's main flow
    exitCode,         \* code given to process.exit, -1 while the process runs
    exitBy,           \* which process.exit call ended the process
    startingMode,     \* options.startingMode: "local", "remote" or "undef"
    mode,             \* the loop's control mode
    switches,         \* number of mode changes so far
    agentState,       \* last published agentState.controlledByUser ("unset" before)
    cur,              \* the current* variables of runClaude (lines 317-324)
    nmsgs,            \* number of remote user messages received
    msgs,             \* the texts received, by message id
    metas,            \* the metas received, by message id, where they are recorded
    traced,           \* whether the metas of the messages are recorded
    queue,            \* MessageQueue2 contents
    batches,          \* batches handed to the assistant, oldest first
    discarded,        \* ids that were queued when a /clear or /compact arrived
    shells,           \* ids of shell commands still executing
    shellOut,         \* ids whose output message was sent to the session, in order
    sentMain,         \* what runClaude's main flow and the loop sent to the session
    late,             \* kinds of what was sent after a session-death was sent
    mainTrace,        \* the steps of the post-loop shutdown, in order
    closes,           \* completed session.close() calls
    sessionReady,     \* currentSession set by onSessionReady
    claudeSid,        \* currentSession.sessionId ("none" until the hook reports one)
    childCode,        \* exit code returned by loop(), -1 before
    cleanups,         \* invocations of cleanup(): <<[by, at, sent]>>
    done,             \* local resources released so far
    offlineSessionId, \* offlineSessionId of the offline branch ("none": null)
    reconn,           \* reconnection loop: "none", "polling", "connected"
    cancelled,        \* reconnection.cancel() was called
    polls,            \* failed reconnection attempts so far
    scanner,          \* session ids the reconnect scanner follows
    terminal          \* lines written to the controlling terminal by the CLI

VARIABLES
    version,          \* relay: the canonical version of each entity
    body,             \* relay: the current body of each entity
    updates,          \* relay: the account's update log, oldest first
    horizon,          \* relay: updates with seq <= horizon are no longer replayed
    connState,        \* relay: "subscribed", "closed" or "resync" per connection
    cursor,           \* relay: lastDeliveredSeq per connection
    inbox,            \* sync client: the updates received as inbound events, in order
    cache,            \* sync client: entity cache, [version, body] per entity
    lastSeq,          \* sync client: seq of the last inbound update applied
    outbox,           \* sync client: the pending publish, or NoPending
    nmut,             \* sync client: mutations started so far
    resumes,          \* reconnections of each client so far
    missed,           \* seqs a client was streamed past without receiving them
    lastPublish,      \* the last publishUpdate the relay handled, or NoPublish
    rpcPrimary,       \* relay: the primary handler's connection per method, or "none"
    rpcRegistered,    \* the connections that registered each method, oldest first
    rpcOnline,        \* the connections whose transport is open
    rpcCalls,         \* the RPC calls made so far, each with its outcomes
    shCall,           \* the call of formatShellOutput or executeShellCommand at hand
    shResult,         \* what that call returned, once it has
    isListening,      \* useSpeechToText: the isListening state
    wantListeningRef, \* the user wants to keep listening
    isStartingRef,    \* a startListening call is on its way
    interimTextRef,   \* there is interim text not yet handed over
    session,          \* the native recognition session: none, requested, running
    pendingEnd,       \* end events of finished sessions not yet delivered
    starting,         \* the startListening calls so far, each with where it is
    stopped,          \* stopListening was called and startListening not since
    sinceStop,        \* what happened since then: events, answers, doStart
    lastEnd,          \* the last end event handled, and what the handler did
    overlap,          \* start() was called with a session still starting or active
    messages,         \* useUserMessageHistory: the session's messages in the store
    historyIndex,     \* the historyIndex state
    savedDraft,       \* savedDraft.current
    lastCall,         \* the last call of the hook: what it was and what it returned
    walk,             \* the walk away from idle: its draft, its ups and its downs
    projectKey,       \* GitStatusSync: each session's machineId:path, once known
    sessionToProjectKey, \* the sessionToProjectKey map
    projectSyncMap,   \* the projectSyncMap map: the sync of a key, 0 for none
    syncs,            \* the project syncs created so far: key and state
    got,              \* the sync getSync returned last to each session
    uploadDirCache,   \* uploadImage: the cached upload directory of the session
    uploads,          \* the uploadImage calls so far, each with where it is
    written,          \* the directories a write succeeded into
    webListening,     \* useSpeechToText (web): the isListening state
    mediaRecorderRef, \* the recording whose recorder is in mediaRecorderRef, 0 for null
    mediaStreamRef,   \* the recording whose stream is in mediaStreamRef, 0 for null
    chunksRef,        \* the number of chunks in chunksRef
    isStoppedRef,     \* isStoppedRef.current
    interimCounterRef, \* interimCounterRef.current
    recordings,       \* the startListening calls so far: position, tracks, handlers
    requests,         \* the interim transcription requests, in the order issued
    interimTranscript, \* the request whose text interimTranscript shows, 0 for ""
    lastUpdate,       \* the last interim update: its request, the requests issued then
    finalInterim,     \* a final chunk triggered an interim request
    mounted           \* the component is mounted

relayVars == <<version, body, updates, horizon, connState, cursor, inbox, cache,
               lastSeq, outbox, nmut, resumes, missed, lastPublish>>

\* The variables of the components outside the session runtime.
rpcVars == <<rpcPrimary, rpcRegistered, rpcOnline, rpcCalls>>

shVars == <<shCall, shResult>>

sttVars ==
    <<isListening, wantListeningRef, isStartingRef, interimTextRef, session, pendingEnd,
      starting, stopped, sinceStop, lastEnd, overlap>>

histVars == <<messages, historyIndex, savedDraft, lastCall, walk>>

gitVars == <<projectKey, sessionToProjectKey, projectSyncMap, syncs, got>>

upVars == <<uploadDirCache, uploads, written>>

webVars ==
    <<webListening, mediaRecorderRef, mediaStreamRef, chunksRef, isStoppedRef,
      interimCounterRef, recordings, requests, interimTranscript, lastUpdate,
      finalInterim, mounted>>

appVars == <<histVars, gitVars, upVars, webVars>>

otherVars == <<relayVars, rpcVars, shVars, sttVars, appVars>>

vars == <<pc, exitCode, exitBy, startingMode, mode, switches, agentState, cur,
          nmsgs, msgs, metas, traced, queue, batches, discarded, shells, shellOut, sentMain,
          late, mainTrace, closes, sessionReady, claudeSid, childCode, cleanups,
          done, offlineSessionId, reconn, cancelled, polls, scanner, terminal,
          otherVars>>

mainVars == <<pc, exitCode, exitBy>>
modeVars == <<startingMode, mode, switches, agentState>>
pumpVars == <<cur, nmsgs, msgs, metas, traced, queue, batches, discarded>>
sendVars == <<shells, shellOut, sentMain, late>>
lifeVars == <<mainTrace, closes, sessionReady, claudeSid, childCode, cleanups, done>>
offlineVars == <<offlineSessionId, reconn, cancelled, polls, scanner, terminal>>

----------------------------------------------------------------------------
\* Bounds of the model.

MaxMsgs == 3
MaxLifeMsgs == 1
MaxSwitches == 1
MaxCleanups == 1
MaxPolls == 1

\* Exit codes of the assistant child and the session ids it reports.
ChildCodes == {0, 2}
Sids == {"s1", "s2"}

----------------------------------------------------------------------------
\* The relay and its sync clients: the sets of the model and the state before
\* anything was published.

MaxUpdates == 2
MaxMutations == 2
MaxTries == 2
MaxResumes == 1

Entities == {"e1", "e2"}
Conns == {"c1", "c2"}
Roamers == {"c2"}

InitBody == <<"init", 0>>

NoPending == [entity |-> "none"]
NoPublish == [conn |-> "none"]

EntityState(v, b) == [version |-> v, body |-> b]

RelayIdle ==
    /\ version = [e \in Entities |-> 0]
    /\ body = [e \in Entities |-> InitBody]
    /\ updates = <<>>
    /\ horizon = 0
    /\ connState = [c \in Conns |-> "subscribed"]
    /\ cursor = [c \in Conns |-> 0]
    /\ inbox = [c \in Conns |-> <<>>]
    /\ cache = [c \in Conns |-> [e \in Entities |-> EntityState(0, InitBody)]]
    /\ lastSeq = [c \in Conns |-> 0]
    /\ outbox = [c \in Conns |-> NoPending]
    /\ nmut = [c \in Conns |-> 0]
    /\ resumes = [c \in Conns |-> 0]
    /\ missed = [c \in Conns |-> {}]
    /\ lastPublish = NoPublish

\* RPC brokering: the methods and the state before any registration or call.

MaxCalls == 2
MaxRegistrations == 2

Methods == {"readFile", "bash"}

RpcOutcomes == {"success", "timeout", "no-handler", "transport-error", "auth-error"}

RpcIdle ==
    /\ rpcPrimary = [m \in Methods |-> "none"]
    /\ rpcRegistered = [m \in Methods |-> <<>>]
    /\ rpcOnline = Conns
    /\ rpcCalls = <<>>

\* Shell commands: no call at hand.
ShellIdle ==
    /\ shCall = [op |-> "none"]
    /\ shResult = [state |-> "idle"]

\* Speech-to-text: the hook as mounted, nothing asked of it.
NoEnd == [handled |-> FALSE, natural |-> FALSE, want |-> FALSE, restarted |-> FALSE]

SttIdle ==
    /\ isListening = FALSE
    /\ wantListeningRef = FALSE
    /\ isStartingRef = FALSE
    /\ interimTextRef = FALSE
    /\ session = "none"
    /\ pendingEnd = 0
    /\ starting = <<>>
    /\ stopped = FALSE
    /\ sinceStop = {}
    /\ lastEnd = NoEnd
    /\ overlap = FALSE

\* Message history: no messages, nothing navigated.
Null == <<"null", 0>>
Undefined == <<"undefined", 0>>
Empty == <<"", 0>>

NoCall == [op |-> "none", before |-> 0 - 1, ret |-> Null]
NoWalk == [on |-> FALSE, draft |-> Empty, ups |-> 0, downs |-> 0]

HistIdle ==
    /\ messages = <<>>
    /\ historyIndex = 0 - 1
    /\ savedDraft = Empty
    /\ lastCall = NoCall
    /\ walk = NoWalk

\* Git status: no session known, no sync made.
GitSessions == {"a", "b", "c"}
ProjectKeys == {"m1:/p", "m1:/q"}

GitIdle ==
    /\ projectKey = [s \in GitSessions |-> "none"]
    /\ sessionToProjectKey = [s \in GitSessions |-> "none"]
    /\ projectSyncMap = [k \in ProjectKeys |-> 0]
    /\ syncs = <<>>
    /\ got = [s \in GitSessions |-> 0 - 1]

\* Image upload: nothing cached, nothing uploaded.
UploadIdle ==
    /\ uploadDirCache = "none"
    /\ uploads = <<>>
    /\ written = {}

\* Web speech-to-text: the hook as mounted, nothing asked of it.
NoUpdate == [req |-> 0, issued |-> 0]

WebIdle ==
    /\ webListening = FALSE
    /\ mediaRecorderRef = 0
    /\ mediaStreamRef = 0
    /\ chunksRef = 0
    /\ isStoppedRef = FALSE
    /\ interimCounterRef = 0
    /\ recordings = <<>>
    /\ requests = <<>>
    /\ interimTranscript = 0
    /\ lastUpdate = NoUpdate
    /\ finalInterim = FALSE
    /\ mounted = TRUE

\* The app's hooks and helpers, before anything happened.
AppIdle ==
    /\ HistIdle
    /\ GitIdle
    /\ UploadIdle
    /\ WebIdle

\* The components outside the session runtime, before anything happened.
OtherIdle ==
    /\ RelayIdle
    /\ RpcIdle
    /\ ShellIdle
    /\ SttIdle
    /\ AppIdle

----------------------------------------------------------------------------
\* Message texts, as character sequences.

Hi == <<"h", "i">>
DollarLs == <<"$", " ", "l", "s">>
BangLs == <<"!", " ", "l", "s">>
ClearCmd == <<"/", "c", "l", "e", "a", "r">>
CompactCmd == <<"/", "c", "o", "m", "p", "a", "c", "t">>

Texts == {Hi, DollarLs, BangLs, ClearCmd, CompactCmd}

\* parseSpecialCommand: "/clear", "/compact", or a "$ " / "! " prefix.
parseSpecialCommand(text) ==
    IF text = ClearCmd
    THEN [type |-> "clear", originalMessage |-> text, shellCommand |-> <<>>]
    ELSE IF Len(text) >= Len(CompactCmd) /\ SubSeq(text, 1, Len(CompactCmd)) = CompactCmd
    THEN [type |-> "compact", originalMessage |-> text, shellCommand |-> <<>>]
    ELSE IF Len(text) >= 2 /\ text[1] \in {"$", "!"} /\ text[2] = " "
    THEN [type |-> "shell", originalMessage |-> <<>>,
          shellCommand |-> SubSeq(text, 3, Len(text))]
    ELSE [type |-> "none", originalMessage |-> <<>>, shellCommand |-> <<>>]

----------------------------------------------------------------------------
\* message.meta: every field is "absent", "null" or a value.

NoMeta ==
    [permissionMode |-> "absent", model |-> "absent", fallbackModel |-> "absent",
     customSystemPrompt |-> "absent", appendSystemPrompt |-> "absent",
     allowedTools |-> "absent", disallowedTools |-> "absent",
     autoApprovePlan |-> "absent"]

MetaValues ==
    [permissionMode |-> {"default", "acceptEdits", "plan"},
     model |-> {"null", "opus"},
     fallbackModel |-> {"null", "haiku"},
     customSystemPrompt |-> {"null", "custom"},
     appendSystemPrompt |-> {"null", "append"},
     allowedTools |-> {"null", "Read"},
     disallowedTools |-> {"null", "Bash"},
     autoApprovePlan |-> {"true", "false"}]

\* The metas the remote client sends here: none, or one field overridden.
Metas ==
    {NoMeta} \cup
    UNION {{[NoMeta EXCEPT ![f] = v] : v \in MetaValues[f]} : f \in DOMAIN NoMeta}

\* applySandboxPermissionPolicy with the sandbox disabled.
applySandboxPermissionPolicy(m, enabled) ==
    IF enabled THEN "bypassPermissions" ELSE m

sandboxEnabled == FALSE

\* if (message.meta?.permissionMode) { ... }: a truthy override replaces it.
ResolvePermissionMode(c, v) ==
    IF v \notin {"absent", "null"}
    THEN applySandboxPermissionPolicy(v, sandboxEnabled)
    ELSE c

\* The model resolved like the other nullable fields: null resets it.
ResolveModelNullResets(c, v) ==
    IF v = "absent" THEN c ELSE IF v = "null" THEN "undef" ELSE v

\* hasOwnProperty("model") and a truthy model replace it; null keeps it.
ResolveModel(c, v) ==
    IF v # "absent" /\ v # "null" THEN v ELSE c

\* hasOwnProperty(f): value || undefined.
ResolveNullable(c, v) ==
    IF v = "absent" THEN c ELSE IF v = "null" THEN "undef" ELSE v

\* hasOwnProperty("autoApprovePlan"): !!value.
ResolveAutoApprove(c, v) ==
    IF v = "absent" THEN c ELSE v = "true"

\* The current* variables after the handler's resolution of one message.
ResolveMode(c, meta) ==
    [permissionMode |-> ResolvePermissionMode(c.permissionMode, meta.permissionMode),
     model |-> ResolveModel(c.model, meta.model),
     fallbackModel |-> ResolveNullable(c.fallbackModel, meta.fallbackModel),
     customSystemPrompt |-> ResolveNullable(c.customSystemPrompt, meta.customSystemPrompt),
     appendSystemPrompt |-> ResolveNullable(c.appendSystemPrompt, meta.appendSystemPrompt),
     allowedTools |-> ResolveNullable(c.allowedTools, meta.allowedTools),
     disallowedTools |-> ResolveNullable(c.disallowedTools, meta.disallowedTools),
     autoApprovePlan |-> ResolveAutoApprove(c.autoApprovePlan, meta.autoApprovePlan)]

\* The EnhancedMode attached to a message: permissionMode || "default".
EnhancedMode(c) ==
    [c EXCEPT !.permissionMode =
        IF c.permissionMode = "undef" THEN "default" ELSE c.permissionMode]

\* A fingerprint that forgets the model.
ModeHashNoModel(m) ==
    [isPlan |-> m.permissionMode = "plan",
     fallbackModel |-> m.fallbackModel,
     customSystemPrompt |-> m.customSystemPrompt,
     appendSystemPrompt |-> m.appendSystemPrompt,
     allowedTools |-> m.allowedTools,
     disallowedTools |-> m.disallowedTools]

\* The queue's mode fingerprint: hashObject of these seven entries.
ModeHash(m) ==
    [isPlan |-> m.permissionMode = "plan",
     model |-> m.model,
     fallbackModel |-> m.fallbackModel,
     customSystemPrompt |-> m.customSystemPrompt,
     appendSystemPrompt |-> m.appendSystemPrompt,
     allowedTools |-> m.allowedTools,
     disallowedTools |-> m.disallowedTools]

----------------------------------------------------------------------------
\* MessageQueue2.

Item(id, message, m, isolate) ==
    [id |-> id, message |-> message, mode |-> m, modeHash |-> ModeHash(m),
     isolate |-> isolate]

Push(q, id, message, m) == Append(q, Item(id, message, m, FALSE))

PushIsolateAndClear(q, id, message, m) == <<Item(id, message, m, TRUE)>>

\* Length of the batch at the head of a non-empty queue.
RECURSIVE BatchLen(_, _)
BatchLen(q, n) ==
    IF n < Len(q) /\ ~q[n + 1].isolate /\ q[n + 1].modeHash = q[1].modeHash
    THEN BatchLen(q, n + 1)
    ELSE n

CollectBatch(q) ==
    IF q[1].isolate THEN <<q[1]>> ELSE SubSeq(q, 1, BatchLen(q, 1))

AfterBatch(q) == SubSeq(q, Len(CollectBatch(q)) + 1, Len(q))

----------------------------------------------------------------------------
\* session.onUserMessage (lines 325-526).

IsShell(text) ==
    LET sc == parseSpecialCommand(text)
    IN sc.type = "shell" /\ sc.shellCommand # <<>>

\* The handler without the return that ends the shell branch.
QueueAfterMessageNoReturn(q, id, text, m) ==
    LET sc == parseSpecialCommand(text)
    IN IF sc.type \in {"compact", "clear"}
       THEN PushIsolateAndClear(q, id,
                IF sc.originalMessage # <<>> THEN sc.originalMessage ELSE text, m)
       ELSE Push(q, id, text, m)

\* The handler pushing /clear and /compact like any other message.
QueueAfterMessagePlainPush(q, id, text, m) ==
    IF IsShell(text) THEN q ELSE Push(q, id, text, m)

\* The queue after the handler's branches at lines 446-525.
QueueAfterMessage(q, id, text, m) ==
    LET sc == parseSpecialCommand(text)
    IN IF sc.type = "shell" /\ sc.shellCommand # <<>>
       THEN q
       ELSE IF sc.type \in {"compact", "clear"}
       THEN PushIsolateAndClear(q, id,
                IF sc.originalMessage # <<>> THEN sc.originalMessage ELSE text, m)
       ELSE Push(q, id, text, m)

QueueIds(q) == {q[i].id : i \in 1..Len(q)}

Entry(t, v) == [t |-> t, v |-> v]

Kinds(es) == {es[i].t : i \in 1..Len(es)}

HasDeath(es) == "death" \in Kinds(es)

\* A session-death was sent, by the post-loop shutdown or by a cleanup.
DeathSent ==
    HasDeath(sentMain) \/ \E c \in 1..Len(cleanups) : HasDeath(cleanups[c].sent)

\* The kinds sent after a session-death, once es were sent in order.
LateAfter(es) ==
    IF DeathSent
    THEN late \cup Kinds(es)
    ELSE late \cup {es[j].t : j \in {j \in 1..Len(es) :
                                    \E i \in 1..(j - 1) : es[i].t = "death"}}

SocketClosed == closes > 0

Running == pc \in {"loop", "returned", "postFlush", "postClose"}

HandlerLive == Running /\ ~SocketClosed

OnUserMessage(text, meta) ==
    /\ HandlerLive
    /\ LET id == nmsgs + 1
           c == ResolveMode(cur, meta)
           sc == parseSpecialCommand(text)
       IN /\ nmsgs' = id
          /\ msgs' = Append(msgs, text)
          /\ metas' = IF traced THEN Append(metas, meta) ELSE metas
          /\ cur' = c
          /\ queue' = QueueAfterMessage(queue, id, text, EnhancedMode(c))
          /\ shells' = IF IsShell(text) THEN shells \cup {id} ELSE shells
          /\ discarded' = IF sc.type \in {"compact", "clear"}
                          THEN discarded \cup QueueIds(queue)
                          ELSE discarded
    /\ UNCHANGED <<traced, batches, shellOut, sentMain, late>>
    /\ UNCHANGED mainVars
    /\ UNCHANGED modeVars
    /\ UNCHANGED lifeVars
    /\ UNCHANGED offlineVars
    /\ UNCHANGED otherVars

\* The remote messages of the pump: every text without overrides, a plain text
\* with each meta, and a shell command that carries an override.
Inputs ==
    {<<text, NoMeta>> : text \in Texts}
    \cup {<<Hi, meta>> : meta \in Metas}
    \cup {<<DollarLs, [NoMeta EXCEPT !.model = "opus"]>>,
          <<BangLs, [NoMeta EXCEPT !.permissionMode = "plan"]>>}

UserMessage ==
    /\ nmsgs < MaxMsgs
    /\ \E in \in Inputs : OnUserMessage(in[1], in[2])

\* executeShellCommand resolved: the async block sends the output as an agent
\* text message (lines 457-462).
ShellDone ==
    /\ Running
    /\ \E id \in shells :
        /\ shells' = shells \ {id}
        /\ shellOut' = Append(shellOut, id)
    /\ late' = LateAfter(<<Entry("text", "output")>>)
    /\ UNCHANGED sentMain
    /\ UNCHANGED mainVars
    /\ UNCHANGED modeVars
    /\ UNCHANGED pumpVars
    /\ UNCHANGED lifeVars
    /\ UNCHANGED offlineVars
    /\ UNCHANGED otherVars

\* The loop's consumer takes the next batch from the queue.
NextBatch ==
    /\ pc = "loop"
    /\ queue # <<>>
    /\ batches' = Append(batches, CollectBatch(queue))
    /\ queue' = AfterBatch(queue)
    /\ UNCHANGED <<cur, nmsgs, msgs, metas, traced, discarded>>
    /\ UNCHANGED mainVars
    /\ UNCHANGED modeVars
    /\ UNCHANGED sendVars
    /\ UNCHANGED lifeVars
    /\ UNCHANGED offlineVars
    /\ UNCHANGED otherVars

----------------------------------------------------------------------------
\* The message pump on its own: a session in its loop, all metas.

InitialCur(pm, model) ==
    [permissionMode |-> pm, model |-> model, fallbackModel |-> "undef",
     customSystemPrompt |-> "undef", appendSystemPrompt |-> "undef",
     allowedTools |-> "undef", disallowedTools |-> "undef",
     autoApprovePlan |-> FALSE]

InitRest ==
    /\ exitCode = -1
    /\ exitBy = "none"
    /\ switches = 0
    /\ nmsgs = 0
    /\ msgs = <<>>
    /\ metas = <<>>
    /\ traced = FALSE
    /\ queue = <<>>
    /\ batches = <<>>
    /\ discarded = {}
    /\ shells = {}
    /\ shellOut = <<>>
    /\ late = {}
    /\ mainTrace = <<>>
    /\ closes = 0
    /\ sessionReady = FALSE
    /\ claudeSid = "none"
    /\ childCode = -1
    /\ cleanups = <<>>
    /\ done = {}
    /\ offlineSessionId = "none"
    /\ reconn = "none"
    /\ cancelled = FALSE
    /\ polls = 0
    /\ scanner = {}
    /\ terminal = 0
    /\ OtherIdle

Init ==
    /\ pc = "loop"
    /\ startingMode = "remote"
    /\ mode = "remote"
    /\ agentState = "false"
    /\ sentMain = <<Entry("agentState", "false")>>
    /\ \E pm \in {"undef", "plan"} : cur = InitialCur(pm, "undef")
    /\ InitRest

Next == UserMessage \/ ShellDone \/ NextBatch

Spec == Init /\ [][Next]_vars

----------------------------------------------------------------------------
\* runClaude from its start: session creation, the loop, both shutdown paths
\* and the offline branch.

BoolStr(b) == IF b THEN "true" ELSE "false"

Other(m) == IF m = "local" THEN "remote" ELSE "local"

\* controlledByUser: options.startingMode === "local".
InitialControlledByUserIfLocal(sm) == sm = "local"

\* controlledByUser: options.startingMode !== "remote" (line 293).
InitialControlledByUser(sm) == sm # "remote"

\* The loop's first mode: startingMode, local when none is given.
LoopStartMode(sm) == IF sm = "undef" THEN "local" ELSE sm

\* onModeChange (lines 606-612): the switch event, then the agent state.
OnModeChange(newMode) ==
    <<Entry("switch", newMode), Entry("agentState", BoolStr(newMode = "local"))>>

LastAgentState(l) ==
    LET at == {i \in 1..Len(l) : l[i].t = "agentState"}
    IN IF at = {} THEN "unset"
       ELSE l[CHOOSE i \in at : \A j \in at : j <= i].v

\* Resources released by the tail shared by both shutdown paths
\* (lines 560-568 and 646-656).
Released == {"caffeinate", "happyServer", "hookServer", "hookSettings"}

\* process.exit(0) after the loop.
PostExitCodeZero(n) == 0

\* process.exit(exitCode) (line 660).
PostExitCode(n) == n

\* cleanup's synchronous head (lines 535-547): archived, then session-death.
CleanupHead == <<Entry("metadata", "archived"), Entry("death", "death")>>

\* if (offlineSessionId) scanner.onNewSession(offlineSessionId) (line 180).
SeedScanner(sid) == IF sid # "none" THEN {sid} ELSE {}

\* onNotify: console.log (line 183): one more line on the terminal.
OnNotify(t) == t + 1

Triggers == {"SIGTERM", "SIGINT", "uncaughtException", "unhandledRejection",
             "killSession"}

Exit(code, by) ==
    /\ pc' = "exited"
    /\ exitCode' = code
    /\ exitBy' = by

\* No machine id in the settings: console.error and process.exit(1) (116-121).
StartNoMachineId ==
    /\ pc = "start"
    /\ Exit(1, "noMachineId")
    /\ terminal' = terminal + 1
    /\ UNCHANGED <<offlineSessionId, reconn, cancelled, polls, scanner>>
    /\ UNCHANGED modeVars
    /\ UNCHANGED pumpVars
    /\ UNCHANGED sendVars
    /\ UNCHANGED lifeVars
    /\ UNCHANGED otherVars

\* getOrCreateSession answered: the session exists (lines 154, 211-233).
CreateSession ==
    /\ pc = "start"
    /\ pc' = "setup"
    /\ UNCHANGED <<exitCode, exitBy>>
    /\ UNCHANGED modeVars
    /\ UNCHANGED pumpVars
    /\ UNCHANGED sendVars
    /\ UNCHANGED lifeVars
    /\ UNCHANGED offlineVars
    /\ UNCHANGED otherVars

\* Servers started, initial agent state published, handlers registered, loop
\* entered (lines 255-596).
Setup ==
    /\ pc = "setup"
    /\ pc' = "loop"
    /\ sentMain' = Append(sentMain, Entry("agentState",
                              BoolStr(InitialControlledByUser(startingMode))))
    /\ agentState' = LastAgentState(sentMain')
    /\ mode' = LoopStartMode(startingMode)
    /\ UNCHANGED <<exitCode, exitBy, startingMode, switches, shells, shellOut, late>>
    /\ UNCHANGED pumpVars
    /\ UNCHANGED lifeVars
    /\ UNCHANGED offlineVars
    /\ UNCHANGED otherVars

\* The loop switches control mode and reports it through onModeChange.
ModeChange ==
    /\ pc = "loop"
    /\ switches < MaxSwitches
    /\ switches' = switches + 1
    /\ mode' = Other(mode)
    /\ sentMain' = sentMain \o OnModeChange(Other(mode))
    /\ late' = LateAfter(OnModeChange(Other(mode)))
    /\ agentState' = LastAgentState(sentMain')
    /\ UNCHANGED <<startingMode, shells, shellOut>>
    /\ UNCHANGED mainVars
    /\ UNCHANGED pumpVars
    /\ UNCHANGED lifeVars
    /\ UNCHANGED offlineVars
    /\ UNCHANGED otherVars

\* onSessionReady (lines 613-616).
SessionReady ==
    /\ pc = "loop"
    /\ ~sessionReady
    /\ sessionReady' = TRUE
    /\ UNCHANGED <<mainTrace, closes, claudeSid, childCode, cleanups, done>>
    /\ UNCHANGED mainVars
    /\ UNCHANGED modeVars
    /\ UNCHANGED pumpVars
    /\ UNCHANGED sendVars
    /\ UNCHANGED offlineVars
    /\ UNCHANGED otherVars

\* onSessionHook (lines 264-277): the assistant reports another session id.
SessionHook ==
    /\ pc = "loop"
    /\ sessionReady
    /\ \E sid \in Sids :
        /\ sid # claudeSid
        /\ claudeSid' = sid
    /\ UNCHANGED <<mainTrace, closes, sessionReady, childCode, cleanups, done>>
    /\ UNCHANGED mainVars
    /\ UNCHANGED modeVars
    /\ UNCHANGED pumpVars
    /\ UNCHANGED sendVars
    /\ UNCHANGED offlineVars
    /\ UNCHANGED otherVars

\* A remote shell command during the session's life, no overrides.
UserMessageLife ==
    /\ nmsgs < MaxLifeMsgs
    /\ OnUserMessage(DollarLs, NoMeta)

\* The assistant child exits with code n: the loop emits its final ready event
\* and returns n.
ChildExit ==
    /\ pc = "loop"
    /\ \E n \in ChildCodes : childCode' = n
    /\ sentMain' = Append(sentMain, Entry("ready", "ready"))
    /\ late' = LateAfter(<<Entry("ready", "ready")>>)
    /\ mainTrace' = Append(mainTrace, "ready")
    /\ pc' = "returned"
    /\ UNCHANGED <<exitCode, exitBy, shells, shellOut>>
    /\ UNCHANGED <<closes, sessionReady, claudeSid, cleanups, done>>
    /\ UNCHANGED modeVars
    /\ UNCHANGED pumpVars
    /\ UNCHANGED offlineVars
    /\ UNCHANGED otherVars

\* Lines 631-640: session cleanup, sendSessionDeath, flush begins.
PostLoop ==
    /\ pc = "returned"
    /\ done' = IF sessionReady THEN done \cup {"sessionCleanup"} ELSE done
    /\ sentMain' = Append(sentMain, Entry("death", "death"))
    /\ late' = LateAfter(<<Entry("death", "death")>>)
    /\ mainTrace' = Append(mainTrace, "death")
    /\ pc' = "postFlush"
    /\ UNCHANGED <<exitCode, exitBy, shells, shellOut>>
    /\ UNCHANGED <<closes, sessionReady, claudeSid, childCode, cleanups>>
    /\ UNCHANGED modeVars
    /\ UNCHANGED pumpVars
    /\ UNCHANGED offlineVars
    /\ UNCHANGED otherVars

\* Line 640 resolves; line 644 begins.
PostFlushed ==
    /\ pc = "postFlush"
    /\ mainTrace' = Append(mainTrace, "flushed")
    /\ pc' = "postClose"
    /\ UNCHANGED <<exitCode, exitBy>>
    /\ UNCHANGED <<closes, sessionReady, claudeSid, childCode, cleanups, done>>
    /\ UNCHANGED modeVars
    /\ UNCHANGED pumpVars
    /\ UNCHANGED sendVars
    /\ UNCHANGED offlineVars
    /\ UNCHANGED otherVars

\* Line 644 resolves; lines 646-660 run to process.exit(exitCode).
PostClosed ==
    /\ pc = "postClose"
    /\ closes' = closes + 1
    /\ mainTrace' = mainTrace \o <<"closed", "exit">>
    /\ done' = done \cup Released
    /\ Exit(PostExitCode(childCode), "main")
    /\ UNCHANGED <<sessionReady, claudeSid, childCode, cleanups>>
    /\ UNCHANGED modeVars
    /\ UNCHANGED pumpVars
    /\ UNCHANGED sendVars
    /\ UNCHANGED offlineVars
    /\ UNCHANGED otherVars

\* A termination trigger calls cleanup() (lines 579-593); its synchronous head
\* runs to the first await (lines 530-548).
Trigger ==
    /\ Running
    /\ Len(cleanups) < MaxCleanups
    /\ \E by \in Triggers :
        cleanups' = Append(cleanups, [by |-> by, at |-> "flush", sent |-> CleanupHead])
    /\ late' = LateAfter(CleanupHead)
    /\ done' = IF sessionReady THEN done \cup {"sessionCleanup"} ELSE done
    /\ UNCHANGED <<shells, shellOut, sentMain>>
    /\ UNCHANGED <<mainTrace, closes, sessionReady, claudeSid, childCode>>
    /\ UNCHANGED mainVars
    /\ UNCHANGED modeVars
    /\ UNCHANGED pumpVars
    /\ UNCHANGED offlineVars
    /\ UNCHANGED otherVars

\* cleanup: flush resolved (line 548), close begins.
CleanupFlushed ==
    /\ Running
    /\ \E i \in 1..Len(cleanups) :
        /\ cleanups[i].at = "flush"
        /\ cleanups' = [cleanups EXCEPT ![i].at = "close"]
    /\ UNCHANGED <<mainTrace, closes, sessionReady, claudeSid, childCode, done>>
    /\ UNCHANGED mainVars
    /\ UNCHANGED modeVars
    /\ UNCHANGED pumpVars
    /\ UNCHANGED sendVars
    /\ UNCHANGED offlineVars
    /\ UNCHANGED otherVars

\* cleanup: flush or close threw; the catch exits with 1 (lines 572-575).
CleanupFailed ==
    /\ Running
    /\ \E i \in 1..Len(cleanups) :
        /\ cleanups[i].at \in {"flush", "close"}
        /\ cleanups' = [cleanups EXCEPT ![i].at = "failed"]
    /\ Exit(1, "cleanupError")
    /\ UNCHANGED <<mainTrace, closes, sessionReady, claudeSid, childCode, done>>
    /\ UNCHANGED modeVars
    /\ UNCHANGED pumpVars
    /\ UNCHANGED sendVars
    /\ UNCHANGED offlineVars
    /\ UNCHANGED otherVars

\* cleanup's tail (lines 560-571): release the local resources, exit with 0.
CleanupTail(i, released) ==
    /\ done' = done \cup released \cup Released
    /\ cleanups' = [cleanups EXCEPT ![i].at = "exit"]
    /\ Exit(0, cleanups[i].by)

\* cleanup: close resolved (line 549); with a session id the upload directory
\* is removed next (lines 553-558), else the tail runs at once.
CleanupClosed ==
    /\ Running
    /\ \E i \in 1..Len(cleanups) :
        /\ cleanups[i].at = "close"
        /\ closes' = closes + 1
        /\ IF sessionReady /\ claudeSid # "none"
           THEN /\ cleanups' = [cleanups EXCEPT ![i].at = "rm"]
                /\ UNCHANGED <<pc, exitCode, exitBy, done>>
           ELSE CleanupTail(i, {})
    /\ UNCHANGED <<mainTrace, sessionReady, claudeSid, childCode>>
    /\ UNCHANGED modeVars
    /\ UNCHANGED pumpVars
    /\ UNCHANGED sendVars
    /\ UNCHANGED offlineVars
    /\ UNCHANGED otherVars

\* cleanup: rm of the upload directory resolved (line 557).
CleanupRemoved ==
    /\ Running
    /\ \E i \in 1..Len(cleanups) :
        /\ cleanups[i].at = "rm"
        /\ CleanupTail(i, {"uploadDir"})
    /\ UNCHANGED <<mainTrace, closes, sessionReady, claudeSid, childCode>>
    /\ UNCHANGED modeVars
    /\ UNCHANGED pumpVars
    /\ UNCHANGED sendVars
    /\ UNCHANGED offlineVars
    /\ UNCHANGED otherVars

\* getOrCreateSession answered nothing (line 162): the reconnection loop starts
\* and claudeLocal runs the assistant.
StartOffline ==
    /\ pc = "start"
    /\ pc' = "offline"
    /\ reconn' = "polling"
    /\ UNCHANGED <<exitCode, exitBy>>
    /\ UNCHANGED <<offlineSessionId, cancelled, polls, scanner, terminal>>
    /\ UNCHANGED modeVars
    /\ UNCHANGED pumpVars
    /\ UNCHANGED sendVars
    /\ UNCHANGED lifeVars
    /\ UNCHANGED otherVars

\* claudeLocal's onSessionFound (lines 193-195).
OfflineSessionFound ==
    /\ pc = "offline"
    /\ \E sid \in Sids :
        /\ sid # offlineSessionId
        /\ offlineSessionId' = sid
    /\ UNCHANGED <<reconn, cancelled, polls, scanner, terminal>>
    /\ UNCHANGED mainVars
    /\ UNCHANGED modeVars
    /\ UNCHANGED pumpVars
    /\ UNCHANGED sendVars
    /\ UNCHANGED lifeVars
    /\ UNCHANGED otherVars

\* A poll that finds the relay still unreachable (line 173 throws).
ReconnectFailed ==
    /\ pc = "offline"
    /\ reconn = "polling"
    /\ ~cancelled
    /\ polls < MaxPolls
    /\ polls' = polls + 1
    /\ UNCHANGED <<offlineSessionId, reconn, cancelled, scanner, terminal>>
    /\ UNCHANGED mainVars
    /\ UNCHANGED modeVars
    /\ UNCHANGED pumpVars
    /\ UNCHANGED sendVars
    /\ UNCHANGED lifeVars
    /\ UNCHANGED otherVars

\* A poll that reaches the relay: onReconnected (lines 167-182) creates the
\* fresh session and its scanner, and the loop notifies through onNotify.
Reconnected ==
    /\ pc = "offline"
    /\ reconn = "polling"
    /\ ~cancelled
    /\ reconn' = "connected"
    /\ scanner' = SeedScanner(offlineSessionId)
    /\ terminal' = OnNotify(terminal)
    /\ UNCHANGED <<offlineSessionId, cancelled, polls>>
    /\ UNCHANGED mainVars
    /\ UNCHANGED modeVars
    /\ UNCHANGED pumpVars
    /\ UNCHANGED sendVars
    /\ UNCHANGED lifeVars
    /\ UNCHANGED otherVars

\* claudeLocal returned: finally cancels the reconnection, then process.exit(0)
\* (lines 204-208).
LocalEnd ==
    /\ pc = "offline"
    /\ cancelled' = TRUE
    /\ done' = done \cup {"caffeinate"}
    /\ Exit(0, "offline")
    /\ UNCHANGED <<mainTrace, closes, sessionReady, claudeSid, childCode, cleanups>>
    /\ UNCHANGED <<offlineSessionId, reconn, polls, scanner, terminal>>
    /\ UNCHANGED modeVars
    /\ UNCHANGED pumpVars
    /\ UNCHANGED sendVars
    /\ UNCHANGED otherVars

InitLife ==
    /\ pc = "start"
    /\ startingMode \in {"local", "remote", "undef"}
    /\ mode = "none"
    /\ agentState = "unset"
    /\ sentMain = <<>>
    /\ cur = InitialCur("undef", "undef")
    /\ InitRest

NextLife ==
    \/ StartNoMachineId
    \/ CreateSession
    \/ Setup
    \/ ModeChange
    \/ SessionReady
    \/ SessionHook
    \/ UserMessageLife
    \/ ShellDone
    \/ ChildExit
    \/ PostLoop
    \/ PostFlushed
    \/ PostClosed
    \/ Trigger
    \/ CleanupFlushed
    \/ CleanupFailed
    \/ CleanupClosed
    \/ CleanupRemoved
    \/ StartOffline
    \/ OfflineSessionFound
    \/ ReconnectFailed
    \/ Reconnected
    \/ LocalEnd

SpecLife == InitLife /\ [][NextLife]_vars

----------------------------------------------------------------------------
\* Properties of the message pump (checked under Spec).

ShellIds == {id \in 1..nmsgs : IsShell(msgs[id])}

CommandIds == {id \in 1..nmsgs : parseSpecialCommand(msgs[id]).type \in {"clear", "compact"}}

BatchIds == UNION {QueueIds(batches[b]) : b \in 1..Len(batches)}

OutputsFor(id) == Cardinality({i \in 1..Len(shellOut) : shellOut[i] = id})

\* C1: a remote message that parses as a shell command ("$ ..." or "! ...") is
\* never in the message queue and never in a batch given to the assistant, and
\* its output is sent to the session as one agent text message: none while the
\* command still executes, exactly one once it has resolved.
C1_ShellShortCircuit ==
    \A id \in ShellIds :
        /\ id \notin QueueIds(queue)
        /\ id \notin BatchIds
        /\ OutputsFor(id) = IF id \in shells THEN 0 ELSE 1

\* A shell command whose output was sent, next to a message that did reach the
\* assistant.
C1_Witness ==
    /\ \E id \in ShellIds : id \notin shells /\ OutputsFor(id) = 1
    /\ BatchIds # {}

\* C2: when /clear or /compact arrives, every message still queued is discarded
\* (never delivered), the command is alone at the head of the queue, and the
\* batch that delivers it holds nothing else, whatever arrives after it.
C2_ClearIsolates ==
    /\ discarded \cap (BatchIds \cup QueueIds(queue)) = {}
    /\ \A i \in 1..Len(queue) : queue[i].id \in CommandIds => i = 1
    /\ \A b \in 1..Len(batches) :
        (QueueIds(batches[b]) \cap CommandIds # {}) => Len(batches[b]) = 1

\* A command that discarded a queued message was delivered alone, and a later
\* message with the same fingerprint came in a batch of its own.
C2_Witness ==
    /\ discarded # {}
    /\ \E b \in 1..(Len(batches) - 1) :
        /\ batches[b][1].id \in CommandIds
        /\ batches[b + 1][1].modeHash = batches[b][1].modeHash
        /\ batches[b + 1][1].id \notin CommandIds

SameOverrides(m1, m2) ==
    /\ m1.model = m2.model
    /\ m1.fallbackModel = m2.fallbackModel
    /\ m1.customSystemPrompt = m2.customSystemPrompt
    /\ m1.appendSystemPrompt = m2.appendSystemPrompt
    /\ m1.allowedTools = m2.allowedTools
    /\ m1.disallowedTools = m2.disallowedTools

\* C3, as claimed: two messages of one batch agree on the permission mode (any
\* of its values), the model, the tool lists and the system prompts.
C3_SameModeInBatch ==
    \A b \in 1..Len(batches) : \A i, j \in 1..Len(batches[b]) :
        /\ batches[b][i].mode.permissionMode = batches[b][j].mode.permissionMode
        /\ SameOverrides(batches[b][i].mode, batches[b][j].mode)

\* C3, amended: two messages of one batch agree on whether the permission mode
\* is plan, and on the model, the fallback model, the tool lists and the system
\* prompts; the other permission modes are not told apart.
C3_SameFingerprintInBatch ==
    \A b \in 1..Len(batches) : \A i, j \in 1..Len(batches[b]) :
        /\ (batches[b][i].mode.permissionMode = "plan")
            = (batches[b][j].mode.permissionMode = "plan")
        /\ SameOverrides(batches[b][i].mode, batches[b][j].mode)

\* One batch holds two messages with different permission modes, and a change
\* of model did split two batches.
C3_Witness ==
    /\ \E b \in 1..Len(batches) : \E i, j \in 1..Len(batches[b]) :
        batches[b][i].mode.permissionMode # batches[b][j].mode.permissionMode
    /\ \E b \in 1..(Len(batches) - 1) :
        /\ batches[b][1].mode.model # batches[b + 1][1].mode.model
        /\ batches[b + 1][1].id \notin CommandIds
        /\ batches[b][1].id \notin CommandIds

----------------------------------------------------------------------------
\* Properties of the session's life (checked under SpecLife).

\* C4: the published controlledByUser bit equals (mode = local): the first
\* publication is (startingMode # remote), and every later one follows at once
\* the switch event of the mode it reports.
C4_ControlledByUser ==
    /\ agentState = LastAgentState(sentMain)
    /\ agentState # "unset" => agentState = BoolStr(mode = "local")
    /\ Len(sentMain) >= 1 =>
        sentMain[1] = Entry("agentState", BoolStr(startingMode # "remote"))
    /\ \A i \in 2..Len(sentMain) :
        sentMain[i].t = "agentState" =>
            /\ sentMain[i - 1].t = "switch"
            /\ sentMain[i].v = BoolStr(sentMain[i - 1].v = "local")
    /\ \A i \in 1..Len(sentMain) :
        sentMain[i].t = "switch" =>
            /\ i < Len(sentMain)
            /\ sentMain[i + 1].t = "agentState"

\* A session started without a starting mode was switched to remote.
C4_Witness ==
    /\ startingMode = "undef"
    /\ switches >= 1
    /\ mode = "remote"
    /\ agentState = "false"

ShutdownOrder == <<"ready", "death", "flushed", "closed", "exit">>

\* C5: after the child exits with code n the post-loop shutdown goes ready,
\* session-death, flush, close, exit, in that order, and the exit it performs
\* carries the code n.
C5_ChildExitOrder ==
    /\ mainTrace = SubSeq(ShutdownOrder, 1, Len(mainTrace))
    /\ exitBy = "main" =>
        /\ mainTrace = ShutdownOrder
        /\ closes >= 1
        /\ \E i, j \in 1..Len(sentMain) :
            i < j /\ sentMain[i].t = "ready" /\ sentMain[j].t = "death"
        /\ exitCode = childCode

\* The child exited with code 2 and the process exited through line 660.
C5_Witness ==
    /\ exitBy = "main"
    /\ childCode = 2
    /\ exitCode = 2

Position(es, t) == CHOOSE i \in 1..Len(es) : es[i].t = t

\* C6, as claimed: when the process has exited after a SIGTERM or SIGINT, the
\* handler published lifecycleState archived before its session-death, the sync
\* client was closed, the child session was cleaned up, the upload directory of
\* a known session id was removed and the hook settings file was removed.
C6_SignalCleanup ==
    (pc = "exited" /\ \E i \in 1..Len(cleanups) : cleanups[i].by \in {"SIGTERM", "SIGINT"})
    => /\ \A i \in 1..Len(cleanups) :
            /\ HasDeath(cleanups[i].sent)
            /\ "metadata" \in Kinds(cleanups[i].sent)
            /\ Position(cleanups[i].sent, "metadata") < Position(cleanups[i].sent, "death")
       /\ closes >= 1
       /\ "hookSettings" \in done
       /\ sessionReady => "sessionCleanup" \in done
       /\ (sessionReady /\ claudeSid # "none") => "uploadDir" \in done

\* C7, as claimed: nothing is sent to the session after a session-death.
C7_NothingAfterDeath == late = {}

\* C8, as claimed: once reconnected, the fresh session's scanner follows the
\* offline assistant session, whichever of discovery and reconnection came
\* first; and the reconnection is cancelled when the local assistant has ended.
C8_ReconnectSeeded ==
    /\ (reconn = "connected" /\ offlineSessionId # "none") => offlineSessionId \in scanner
    /\ exitBy = "offline" => cancelled

FatalExits == {"noMachineId", "cleanupError", "uncaughtException", "unhandledRejection"}

\* C9, as claimed: exit code 3 when the server was unreachable at start, 1 for
\* a fatal error, and 0 for neither.
C9_ExitCodeMapping ==
    pc = "exited" =>
        /\ reconn # "none" => exitCode = 3
        /\ exitBy \in FatalExits => exitCode = 1
        /\ exitCode = 0 => (reconn = "none" /\ exitBy \notin FatalExits)

\* C10, as claimed: while the assistant runs, online or offline, the CLI has
\* written nothing to the terminal.
C10_QuietTerminal == pc \in {"loop", "offline"} => terminal = 0

----------------------------------------------------------------------------
\* Relay Core and Sync Client: publishUpdate with optimistic concurrency and
\* idempotent retry, per-connection delivery with self-echo suppression, and
\* subscribe with a retention horizon.

runVars == <<mainVars, modeVars, pumpVars, sendVars, lifeVars, offlineVars>>

\* The next seq of the account's log, without the increment.
NextSeqStuck(log) == IF log = <<>> THEN 1 ELSE log[Len(log)].seq

\* The next seq of the account's log: one more than the last assigned.
NextSeq(log) == IF log = <<>> THEN 1 ELSE log[Len(log)].seq + 1

\* A version check that also lets stale proposals through.
AcceptsStale(currentVersion, expectedVersion) == expectedVersion <= currentVersion

\* The server accepts only when expectedVersion == currentVersion.
Accepts(currentVersion, expectedVersion) == expectedVersion = currentVersion

\* A lookup that never finds an earlier landing.
LandedNever(log, e, lid) == {}

\* The positions in the log of the updates of entity e that carry localId lid.
Landed(log, e, lid) == {i \in 1..Len(log) : log[i].entity = e /\ log[i].localId = lid}

\* Fan-out that reaches the publisher too.
SuppressedNever(u, c) == FALSE

\* Self-echo suppression: the publisher's connection is left out of the fan-out.
Suppressed(u, c) == u.producer = c

\* A resumption that starts one update too late.
ResumeFromNext(since) == since + 1

\* The cursor of a connection that resumes from `since`: the stream is every
\* update with seq > since.
ResumeFrom(since) == since

\* subscribe: `since` below the retention horizon gets resync-required.
ResyncRequired(since, h) == since < h

Update(seq, e, b, c, lid, expected) ==
    [seq |-> seq, entity |-> e, body |-> b, producer |-> c, localId |-> lid,
     expectedVersion |-> expected, newVersion |-> expected + 1]

\* The cache entry after the cache learns state s of an entity: it never goes
\* back to an older version.
Adopt(entry, s) == IF s.version > entry.version THEN s ELSE entry

\* The relay's answer to publishUpdate(e, expected, b) with localId lid.
PublishReply(e, expected, lid) ==
    LET landed == Landed(updates, e, lid)
    IN IF landed # {}
       THEN LET u == updates[CHOOSE i \in landed : \A j \in landed : i <= j]
            IN [result |-> "ok", replay |-> TRUE, seq |-> u.seq,
                newVersion |-> u.newVersion, body |-> u.body]
       ELSE IF Accepts(version[e], expected)
       THEN [result |-> "ok", replay |-> FALSE, seq |-> NextSeq(updates),
             newVersion |-> expected + 1, body |-> "none"]
       ELSE [result |-> "version-mismatch", replay |-> FALSE,
             current |-> EntityState(version[e], body[e])]

\* The mutations started so far, by all clients.
Mutations == nmut["c1"] + nmut["c2"]

\* mutate(entityRef, patchFn): the client queues a publish tagged with a fresh
\* localId.
Mutate ==
    \E c \in Conns, e \in Entities :
        /\ outbox[c] = NoPending
        /\ Mutations < MaxMutations
        /\ nmut' = [nmut EXCEPT ![c] = @ + 1]
        /\ outbox' = [outbox EXCEPT ![c] =
                [entity |-> e, body |-> <<c, nmut[c] + 1>>, localId |-> <<c, nmut[c] + 1>>,
                 tries |-> 0]]
        /\ UNCHANGED <<version, body, updates, horizon, connState, cursor, inbox,
                       cache, lastSeq, resumes, missed, lastPublish>>
        /\ UNCHANGED <<runVars, rpcVars, shVars, sttVars, appVars>>

\* publishUpdate: the client sends its pending publish with expectedVersion =
\* the cached version; the relay answers; the acknowledgement reaches the
\* client or is lost. A publish whose acknowledgement was lost stays in the
\* outbox and is retried; after version-mismatch the client adopts the server's
\* state and retries, until the retry count is exhausted.
PublishUpdate ==
    \E c \in Conns, ackLost \in BOOLEAN :
        /\ connState[c] = "subscribed"
        /\ outbox[c] # NoPending
        /\ LET p == outbox[c]
               e == p.entity
               expected == cache[c][e].version
               reply == PublishReply(e, expected, p.localId)
               accepted == reply.result = "ok" /\ ~reply.replay
           IN /\ accepted => Len(updates) < MaxUpdates
              /\ updates' = IF accepted
                            THEN Append(updates, Update(reply.seq, e, p.body, c,
                                                        p.localId, expected))
                            ELSE updates
              /\ version' = IF accepted THEN [version EXCEPT ![e] = reply.newVersion]
                            ELSE version
              /\ body' = IF accepted THEN [body EXCEPT ![e] = p.body] ELSE body
              /\ lastPublish' =
                    [conn |-> c, entity |-> e, expectedVersion |-> expected,
                     reply |-> reply,
                     before |-> [version |-> version[e], body |-> body[e],
                                 log |-> Len(updates)]]
              /\ cache' =
                    IF ackLost THEN cache
                    ELSE IF reply.result = "ok"
                    THEN [cache EXCEPT ![c][e] = Adopt(@, EntityState(reply.newVersion,
                              IF reply.replay THEN reply.body ELSE p.body))]
                    ELSE [cache EXCEPT ![c][e] = Adopt(@, reply.current)]
              /\ outbox' =
                    IF ackLost THEN outbox
                    ELSE IF reply.result = "ok" \/ p.tries + 1 = MaxTries
                    THEN [outbox EXCEPT ![c] = NoPending]
                    ELSE [outbox EXCEPT ![c].tries = @ + 1]
        /\ UNCHANGED <<horizon, connState, cursor, inbox, lastSeq, nmut, resumes, missed>>
        /\ UNCHANGED <<runVars, rpcVars, shVars, sttVars, appVars>>

\* The update the relay streams next to a connection whose cursor is k: the
\* first retained one with seq > k.
NextFor(k) ==
    LET later == {i \in 1..Len(updates) : updates[i].seq > k /\ updates[i].seq > horizon}
    IN CHOOSE i \in later : \A j \in later : i <= j

HasNextFor(k) == \E i \in 1..Len(updates) : updates[i].seq > k /\ updates[i].seq > horizon

\* What a client keeps of an inbound update: its seq and producer, and how
\* often the client had reconnected when it came.
Inbound(u, epoch) == [seq |-> u.seq, producer |-> u.producer, epoch |-> epoch]

\* The relay sends the next update to a subscriber and advances its cursor;
\* the applier patches the cache and advances lastSeq. The publisher's own
\* update only moves the cursor.
Deliver ==
    \E c \in Conns :
        /\ connState[c] = "subscribed"
        /\ HasNextFor(cursor[c])
        /\ LET i == NextFor(cursor[c])
               u == updates[i]
               passed == {updates[j].seq : j \in {j \in 1..(i - 1) :
                              updates[j].seq > cursor[c] /\ ~Suppressed(updates[j], c)}}
           IN /\ cursor' = [cursor EXCEPT ![c] = u.seq]
              /\ missed' = [missed EXCEPT ![c] = @ \cup passed]
              /\ IF Suppressed(u, c)
                 THEN UNCHANGED <<inbox, cache, lastSeq>>
                 ELSE /\ inbox' = [inbox EXCEPT ![c] = Append(@, Inbound(u, resumes[c]))]
                      /\ cache' = [cache EXCEPT ![c][u.entity] =
                                      Adopt(@, EntityState(u.newVersion, u.body))]
                      /\ lastSeq' = [lastSeq EXCEPT ![c] = u.seq]
        /\ UNCHANGED <<version, body, updates, horizon, connState, outbox, nmut,
                       resumes, lastPublish>>
        /\ UNCHANGED <<runVars, rpcVars, shVars, sttVars, appVars>>

\* Transport close, heartbeat loss or drain.
Disconnect ==
    \E c \in Roamers :
        /\ connState[c] = "subscribed"
        /\ resumes[c] < MaxResumes
        /\ connState' = [connState EXCEPT ![c] = "closed"]
        /\ UNCHANGED <<version, body, updates, horizon, cursor, inbox, cache, lastSeq,
                       outbox, nmut, resumes, missed, lastPublish>>
        /\ UNCHANGED <<runVars, rpcVars, shVars, sttVars, appVars>>

\* The client reconnects and subscribes presenting its lastSeq: the relay
\* resumes the stream after it, or answers resync-required.
Subscribe ==
    \E c \in Conns :
        /\ connState[c] = "closed"
        /\ resumes' = [resumes EXCEPT ![c] = @ + 1]
        /\ IF ResyncRequired(lastSeq[c], horizon)
           THEN /\ connState' = [connState EXCEPT ![c] = "resync"]
                /\ UNCHANGED cursor
           ELSE /\ connState' = [connState EXCEPT ![c] = "subscribed"]
                /\ cursor' = [cursor EXCEPT ![c] = ResumeFrom(lastSeq[c])]
        /\ UNCHANGED <<version, body, updates, horizon, inbox, cache, lastSeq, outbox,
                       nmut, missed, lastPublish>>
        /\ UNCHANGED <<runVars, rpcVars, shVars, sttVars, appVars>>

\* The snapshot a refetch brings: the state as of seq `floor`.
Snapshot(floor, epoch) == [seq |-> floor, producer |-> "snapshot", epoch |-> epoch]

\* After resync-required the client refetches the entities and restarts its
\* cursor at the snapshot's floor.
Refetch ==
    \E c \in Conns :
        /\ connState[c] = "resync"
        /\ connState' = [connState EXCEPT ![c] = "subscribed"]
        /\ cache' = [cache EXCEPT ![c] = [e \in Entities |-> EntityState(version[e], body[e])]]
        /\ lastSeq' = [lastSeq EXCEPT ![c] = NextSeq(updates) - 1]
        /\ cursor' = [cursor EXCEPT ![c] = NextSeq(updates) - 1]
        /\ inbox' = [inbox EXCEPT ![c] = Append(@, Snapshot(NextSeq(updates) - 1, resumes[c]))]
        /\ UNCHANGED <<version, body, updates, horizon, outbox, nmut, resumes,
                       missed, lastPublish>>
        /\ UNCHANGED <<runVars, rpcVars, shVars, sttVars, appVars>>

\* Retention: the oldest update is dropped from what a subscribe can replay,
\* once every connected subscriber was sent it.
Truncate ==
    /\ horizon < Len(updates)
    /\ \A c \in Conns : connState[c] = "subscribed" => cursor[c] > horizon
    /\ horizon' = horizon + 1
    /\ UNCHANGED <<version, body, updates, connState, cursor, inbox, cache, lastSeq,
                   outbox, nmut, resumes, missed, lastPublish>>
    /\ UNCHANGED <<runVars, rpcVars, shVars, sttVars, appVars>>

InitRelay ==
    /\ pc = "idle"
    /\ startingMode = "undef"
    /\ mode = "none"
    /\ agentState = "unset"
    /\ sentMain = <<>>
    /\ cur = InitialCur("undef", "undef")
    /\ InitRest

NextRelay ==
    \/ Mutate
    \/ PublishUpdate
    \/ Deliver
    \/ Disconnect
    \/ Subscribe
    \/ Refetch
    \/ Truncate

SpecRelay == InitRelay /\ [][NextRelay]_vars

----------------------------------------------------------------------------
\* Properties of the relay (checked under SpecRelay).

LogOf(e) == {i \in 1..Len(updates) : updates[i].entity = e}

AcceptedLast == lastPublish.reply.result = "ok" /\ ~lastPublish.reply.replay

\* C11: a mutation (a publish that is not the retry of one that landed) is
\* accepted exactly when its expectedVersion is the entity's current version;
\* a rejected one leaves version, body and log as they were and is answered
\* with version-mismatch carrying the current state; no two accepted updates
\* of an entity proposed the same expectedVersion.
C11_OptimisticConcurrency ==
    /\ (lastPublish # NoPublish /\ ~lastPublish.reply.replay) =>
        LET p == lastPublish
            e == p.entity
        IN /\ AcceptedLast <=> (p.expectedVersion = p.before.version)
           /\ AcceptedLast =>
                /\ version[e] = p.before.version + 1
                /\ Len(updates) = p.before.log + 1
                /\ updates[Len(updates)].entity = e
           /\ ~AcceptedLast =>
                /\ p.reply.result = "version-mismatch"
                /\ version[e] = p.before.version
                /\ body[e] = p.before.body
                /\ Len(updates) = p.before.log
                /\ p.reply.current = EntityState(version[e], body[e])
    /\ \A e \in Entities :
        /\ Cardinality(LogOf(e)) = version[e]
        /\ \A i, j \in LogOf(e) :
            i # j => updates[i].expectedVersion # updates[j].expectedVersion

\* Two clients proposed the same expectedVersion for one entity: one update
\* landed and the other client was answered version-mismatch.
C11_Witness ==
    /\ lastPublish # NoPublish
    /\ lastPublish.reply.result = "version-mismatch"
    /\ \E i \in LogOf(lastPublish.entity) :
        /\ updates[i].expectedVersion = lastPublish.expectedVersion
        /\ updates[i].producer # lastPublish.conn

\* C12: the seqs of the account's log are strictly increasing, and what a
\* client receives comes in strictly increasing seq, also across a reconnect
\* that resumes from its last seq.
C12_SeqOrder ==
    /\ \A i, j \in 1..Len(updates) : i < j => updates[i].seq < updates[j].seq
    /\ \A c \in Conns : \A i, j \in 1..Len(inbox[c]) :
        i < j => inbox[c][i].seq < inbox[c][j].seq

\* A client received one update, reconnected, and received a later update of
\* another entity after resuming.
C12_Witness ==
    /\ version["e1"] >= 1
    /\ version["e2"] >= 1
    /\ \E c \in Conns : \E i, j \in 1..Len(inbox[c]) :
        /\ inbox[c][i].epoch = 0
        /\ inbox[c][j].epoch = 1
        /\ inbox[c][i].producer # "snapshot"
        /\ inbox[c][j].producer # "snapshot"

\* C13: the log holds at most one update per (entity, localId); a retry of a
\* publish that landed changes neither version, body nor log and is answered
\* with the seq and version of the update that landed first.
C13_IdempotentRetry ==
    /\ \A i, j \in 1..Len(updates) :
        (updates[i].entity = updates[j].entity /\ updates[i].localId = updates[j].localId)
            => i = j
    /\ (lastPublish # NoPublish /\ lastPublish.reply.replay) =>
        LET p == lastPublish
            e == p.entity
        IN /\ version[e] = p.before.version
           /\ body[e] = p.before.body
           /\ Len(updates) = p.before.log
           /\ \E i \in LogOf(e) :
                /\ updates[i].seq = p.reply.seq
                /\ updates[i].newVersion = p.reply.newVersion
                /\ updates[i].producer = p.conn

\* A publish landed, its acknowledgement was lost, another client's update of
\* the same entity landed, and then the retry was answered.
C13_Witness ==
    /\ lastPublish # NoPublish
    /\ lastPublish.reply.replay
    /\ \E i \in LogOf(lastPublish.entity) :
        /\ updates[i].producer # lastPublish.conn
        /\ updates[i].seq > lastPublish.reply.seq
    /\ outbox[lastPublish.conn] = NoPending

Snapshots(c) == {inbox[c][i].seq : i \in {i \in 1..Len(inbox[c]) :
                                             inbox[c][i].producer = "snapshot"}}

Received(c) == {inbox[c][i].seq : i \in {i \in 1..Len(inbox[c]) :
                                            inbox[c][i].producer # "snapshot"}}

\* C14: no connection receives an update it produced, and every update the
\* relay's cursor has passed was received by every other connection, unless a
\* refetched snapshot already covered it.
C14_NoSelfEcho ==
    \A c \in Conns :
        /\ \A i \in 1..Len(inbox[c]) : inbox[c][i].producer # c
        /\ \A i \in 1..Len(updates) :
            (/\ updates[i].producer # c
             /\ updates[i].seq <= cursor[c]
             /\ \A f \in Snapshots(c) : f < updates[i].seq)
                => updates[i].seq \in Received(c)

\* Both clients published; each was sent the other's update and passed its own.
C14_Witness ==
    \A c \in Conns :
        /\ \E i \in 1..Len(updates) : updates[i].producer = c /\ updates[i].seq <= cursor[c]
        /\ Received(c) # {}

CaughtUp(c) ==
    /\ connState[c] = "subscribed"
    /\ cursor[c] = NextSeq(updates) - 1
    /\ outbox[c] = NoPending

\* C16: a client that was sent the whole log and has nothing pending holds
\* the relay's state of every entity, whether it stayed connected or resumed
\* from its last seq; a subscribe is answered resync-required exactly when its
\* seq is below the horizon, and no client is streamed past an update it did
\* not receive.
C16_ResumeConverges ==
    \A c \in Conns :
        /\ CaughtUp(c) => \A e \in Entities : cache[c][e] = EntityState(version[e], body[e])
        /\ missed[c] = {}
        /\ connState[c] = "resync" => lastSeq[c] < horizon

\* One client resumed at the horizon and caught up with updates it was sent
\* after the reconnect, next to a client that stayed connected; both hold the
\* relay's state.
C16_Witness ==
    /\ CaughtUp("c1")
    /\ CaughtUp("c2")
    /\ resumes["c1"] = 0
    /\ resumes["c2"] = 1
    /\ Snapshots("c2") = {}
    /\ horizon >= 1
    /\ \E i \in 1..Len(inbox["c2"]) : inbox["c2"][i].epoch = 1
    /\ version["e1"] + version["e2"] >= 2

\* Everything outside the app's hooks and helpers.
coreVars == <<runVars, relayVars, rpcVars, shVars, sttVars>>

----------------------------------------------------------------------------
\* RPC brokering: rpcHandle registers the calling connection as the primary
\* handler of a method, rpcCall routes to the primary handler or answers
\* no-handler, and a routed call ends by response, timeout or transport loss.

\* A registration that leaves an earlier primary handler in place.
PrimaryAfterHandleFirst(old, c) == IF old = "none" THEN c ELSE old

\* rpcHandle: the most recently registered connection is the primary handler.
PrimaryAfterHandle(old, c) == c

\* The primary handler after connection c closed: c's registrations are gone.
PrimaryAfterClose(old, c) == IF old = c THEN "none" ELSE old

\* The first answer to rpcCall: an outcome at once, or "pending" once routed.
RpcAdmit(caller, m, authorized) ==
    IF ~authorized THEN "auth-error"
    ELSE IF caller \notin rpcOnline THEN "transport-error"
    ELSE IF rpcPrimary[m] = "none" THEN "no-handler"
    ELSE "pending"

Latest(m) ==
    IF rpcRegistered[m] = <<>> THEN "none" ELSE rpcRegistered[m][Len(rpcRegistered[m])]

Registrations == Len(rpcRegistered["readFile"]) + Len(rpcRegistered["bash"])

RpcHandle ==
    \E c \in rpcOnline, m \in Methods :
        /\ Registrations < MaxRegistrations
        /\ rpcPrimary' = [rpcPrimary EXCEPT ![m] = PrimaryAfterHandle(@, c)]
        /\ rpcRegistered' = [rpcRegistered EXCEPT ![m] = Append(@, c)]
        /\ UNCHANGED <<rpcOnline, rpcCalls>>
        /\ UNCHANGED <<runVars, relayVars, shVars, sttVars, appVars>>

RpcCall ==
    \E caller \in Conns, m \in Methods, authorized \in BOOLEAN :
        /\ Len(rpcCalls) < MaxCalls
        /\ LET first == RpcAdmit(caller, m, authorized)
           IN rpcCalls' = Append(rpcCalls,
                [caller |-> caller, method |-> m,
                 target |-> IF first = "pending" THEN rpcPrimary[m] ELSE "none",
                 latest |-> Latest(m),
                 authorized |-> authorized,
                 callerOnline |-> caller \in rpcOnline,
                 latestOnline |-> Latest(m) \in rpcOnline,
                 waited |-> first = "pending",
                 outcomes |-> IF first = "pending" THEN <<>> ELSE <<first>>])
        /\ UNCHANGED <<rpcPrimary, rpcRegistered, rpcOnline>>
        /\ UNCHANGED <<runVars, relayVars, shVars, sttVars, appVars>>

Pending(i) == rpcCalls[i].waited /\ rpcCalls[i].outcomes = <<>>

\* The receiver's response reaches the caller.
RpcRespond ==
    \E i \in 1..Len(rpcCalls) :
        /\ Pending(i)
        /\ rpcCalls[i].target \in rpcOnline
        /\ rpcCalls' = [rpcCalls EXCEPT ![i].outcomes = Append(@, "success")]
        /\ UNCHANGED <<rpcPrimary, rpcRegistered, rpcOnline>>
        /\ UNCHANGED <<runVars, relayVars, shVars, sttVars, appVars>>

\* timeoutMs expired before a response.
RpcTimeout ==
    \E i \in 1..Len(rpcCalls) :
        /\ Pending(i)
        /\ rpcCalls' = [rpcCalls EXCEPT ![i].outcomes = Append(@, "timeout")]
        /\ UNCHANGED <<rpcPrimary, rpcRegistered, rpcOnline>>
        /\ UNCHANGED <<runVars, relayVars, shVars, sttVars, appVars>>

\* A connection closes: its registrations go, and its own pending calls end
\* with transport-error.
RpcClose ==
    \E c \in rpcOnline :
        /\ rpcOnline' = rpcOnline \ {c}
        /\ rpcPrimary' = [m \in Methods |-> PrimaryAfterClose(rpcPrimary[m], c)]
        /\ rpcCalls' = [i \in 1..Len(rpcCalls) |->
                          IF Pending(i) /\ rpcCalls[i].caller = c
                          THEN [rpcCalls[i] EXCEPT !.outcomes = Append(@, "transport-error")]
                          ELSE rpcCalls[i]]
        /\ UNCHANGED rpcRegistered
        /\ UNCHANGED <<runVars, relayVars, shVars, sttVars, appVars>>

InitRpc == InitRelay

NextRpc ==
    \/ RpcHandle
    \/ RpcCall
    \/ RpcRespond
    \/ RpcTimeout
    \/ RpcClose

SpecRpc == InitRpc /\ [][NextRpc]_vars

Outcomes(call) == {call.outcomes[k] : k \in 1..Len(call.outcomes)}

\* C15: a call is routed only to the connection that registered the method
\* last, and only if that connection is connected; an admitted call without
\* such a handler is answered no-handler at once, without waiting; a call has
\* at most one outcome, one of the five, and exactly one unless it is still
\* waiting for its receiver.
C15_RpcRouting ==
    \A i \in 1..Len(rpcCalls) :
        LET call == rpcCalls[i]
            admitted == call.authorized /\ call.callerOnline
        IN /\ call.target # "none" =>
                /\ call.target = call.latest
                /\ call.latestOnline
           /\ call.waited <=> (admitted /\ call.latestOnline)
           /\ call.waited <=> call.target # "none"
           /\ ("no-handler" \in Outcomes(call)) <=> (admitted /\ ~call.latestOnline)
           /\ Len(call.outcomes) <= 1
           /\ Outcomes(call) \subseteq RpcOutcomes
           /\ ~call.waited => Len(call.outcomes) = 1

\* Two connections registered one method; a call went to the later one and
\* succeeded, and after it closed a call got no-handler at once.
C15_Witness ==
    /\ \E m \in Methods : Len(rpcRegistered[m]) = 2 /\ rpcRegistered[m][1] # rpcRegistered[m][2]
    /\ Len(rpcCalls) = 2
    /\ rpcCalls[1].outcomes = <<"success">>
    /\ rpcCalls[1].method = rpcCalls[2].method
    /\ Len(rpcRegistered[rpcCalls[1].method]) = 2
    /\ rpcCalls[2].outcomes = <<"no-handler">>

----------------------------------------------------------------------------
\* The mode resolution of session.onUserMessage on its own: the handler with
\* the metas of the messages recorded, nothing consumed from the queue.

MaxTraced == 2

\* The session's initial current* values (lines 317-324); the permission mode
\* and the model come from the options.
InitialCurs ==
    {InitialCur(pm, model) : pm \in {"undef", "acceptEdits"}, model \in {"undef", "sonnet"}}

TracedMessage ==
    /\ nmsgs < MaxTraced
    /\ \E text \in {Hi, DollarLs, ClearCmd}, meta \in Metas : OnUserMessage(text, meta)

InitModes ==
    /\ pc = "loop"
    /\ startingMode = "remote"
    /\ mode = "remote"
    /\ agentState = "false"
    /\ sentMain = <<Entry("agentState", "false")>>
    /\ cur \in InitialCurs
    /\ exitCode = -1
    /\ exitBy = "none"
    /\ switches = 0
    /\ nmsgs = 0
    /\ msgs = <<>>
    /\ metas = <<>>
    /\ traced = TRUE
    /\ queue = <<>>
    /\ batches = <<>>
    /\ discarded = {}
    /\ shells = {}
    /\ shellOut = <<>>
    /\ late = {}
    /\ mainTrace = <<>>
    /\ closes = 0
    /\ sessionReady = FALSE
    /\ claudeSid = "none"
    /\ childCode = -1
    /\ cleanups = <<>>
    /\ done = {}
    /\ offlineSessionId = "none"
    /\ reconn = "none"
    /\ cancelled = FALSE
    /\ polls = 0
    /\ scanner = {}
    /\ terminal = 0
    /\ OtherIdle

NextModes == TracedMessage

SpecModes == InitModes /\ [][NextModes]_vars

\* The ids at or before k whose meta overrides field f explicitly: a truthy
\* permission mode or model, any present value of the other fields.
Overrides(f, k) ==
    {j \in 1..k :
        IF f \in {"permissionMode", "model"}
        THEN metas[j][f] \notin {"absent", "null"}
        ELSE metas[j][f] # "absent"}

\* The value field f has for message k by the claim: that of the latest
\* explicit override at or before k, null read as unset.
Overridden(f, k) ==
    LET j == CHOOSE j \in Overrides(f, k) : \A i \in Overrides(f, k) : i <= j
        v == metas[j][f]
    IN IF f = "autoApprovePlan" THEN v = "true"
       ELSE IF v = "null" THEN "undef" ELSE v

----------------------------------------------------------------------------
\* formatShellOutput and executeShellCommand (runClaude.ts 813-886), on
\* strings as sequences of characters.

\* The backquote character, which a string of this notation cannot hold.
Backtick == "backquote"

Fence == <<Backtick, Backtick, Backtick>>
NL == <<"\n">>

\* `\`\`\`bash\n$ ${command}\n` (line 823).
Header(command) == Fence \o <<"b", "a", "s", "h", "\n", "$", " ">> \o command \o NL

TimedOutMessage ==
    <<"C", "o", "m", "m", "a", "n", "d", " ", "t", "i", "m", "e", "d", " ", "o", "u", "t",
      " ", "(", "3", "0", "s", " ", "l", "i", "m", "i", "t", ")">>
CommandFailed ==
    <<"C", "o", "m", "m", "a", "n", "d", " ", "f", "a", "i", "l", "e", "d">>

\* `${n}` of a number: its decimal digits, with a minus sign below zero.
RECURSIVE Decimal(_)
Decimal(n) ==
    LET digit(d) == <<"0", "1", "2", "3", "4", "5", "6", "7", "8", "9">>[d + 1]
    IN IF n < 0 THEN <<"-">> \o Decimal(0 - n)
       ELSE IF n < 10 THEN <<digit(n)>>
       ELSE Decimal(n \div 10) \o <<digit(n % 10)>>

\* `\n\n*Exit code: ${exitCode}*` (line 837).
Footer(code) ==
    <<"\n", "\n", "*", "E", "x", "i", "t", " ", "c", "o", "d", "e", ":", " ">>
    \o Decimal(code) \o <<"*">>

\* if (s) { output += s; if (!s.endsWith("\n")) output += "\n"; }
Section(s) ==
    IF s = <<>> THEN <<>>
    ELSE IF s[Len(s)] = "\n" THEN s ELSE s \o NL

\* formatShellOutput with the footer only for exit codes above zero.
formatShellOutputPositiveOnly(command, stdout, stderr, code) ==
    Header(command) \o Section(stdout) \o Section(stderr) \o Fence
    \o (IF code > 0 THEN Footer(code) ELSE <<>>)

\* formatShellOutput (lines 817-841).
formatShellOutput(command, stdout, stderr, code) ==
    Header(command) \o Section(stdout) \o Section(stderr) \o Fence
    \o (IF code # 0 THEN Footer(code) ELSE <<>>)

\* execError.code: a number (exit status), a string (system error name) or null.
NumCode(n) == [isNumber |-> TRUE, n |-> n, name |-> "none"]
NameCode(s) == [isNumber |-> FALSE, n |-> 0, name |-> s]

ErrorCodes ==
    {NumCode(1), NumCode(127), NameCode("ENOENT"), NameCode("ETIMEDOUT"),
     NameCode("ERR_CHILD_PROCESS_STDIO_MAXBUFFER"), NameCode("null")}

Outs == {<<>>, <<"o">>, <<"o", "\n">>, <<"\n">>}
Errs == {<<>>, <<"e">>, <<"e", "\n">>, <<"\n", "e">>}

\* What execAsync settles with: stdout and stderr, or an error carrying them
\* with message, code and killed.
ExecOutcomes ==
    {[settled |-> "resolved", stdout |-> o, stderr |-> e] : o \in Outs, e \in Errs}
    \cup {[settled |-> "rejected", stdout |-> o, stderr |-> e, message |-> m,
           code |-> code, killed |-> k] :
            o \in {<<>>, <<"o">>}, e \in {<<>>, <<"e">>}, m \in {<<>>, CommandFailed},
            code \in ErrorCodes, k \in BOOLEAN}

\* A timeout test that looks at killed only.
TimedOutKilledOnly(err) == err.killed

\* execError.killed || execError.code === "ETIMEDOUT" (line 876).
TimedOut(err) == err.killed \/ (~err.code.isNumber /\ err.code.name = "ETIMEDOUT")

\* execError.stderr || execError.message || "Command failed", replaced on a
\* timeout (lines 871-872, 877).
ErrorMessage(err) ==
    IF TimedOut(err) THEN TimedOutMessage
    ELSE IF err.stderr # <<>> THEN err.stderr
    ELSE IF err.message # <<>> THEN err.message
    ELSE CommandFailed

\* typeof execError.code === "number" ? execError.code : 1, -1 on a timeout
\* (lines 873-874, 878).
ErrorExitCode(err) ==
    IF TimedOut(err) THEN 0 - 1
    ELSE IF err.code.isNumber THEN err.code.n ELSE 1

\* executeShellCommand (lines 847-886): the try formats the output with exit
\* code 0, the catch formats the error; both return.
executeShellCommand(command, outcome) ==
    IF outcome.settled = "resolved"
    THEN [state |-> "resolved",
          text |-> formatShellOutput(command, outcome.stdout, outcome.stderr, 0)]
    ELSE [state |-> "resolved",
          text |-> formatShellOutput(command, outcome.stdout, ErrorMessage(outcome),
                                     ErrorExitCode(outcome))]

FormatReturns ==
    /\ shCall.op = "format"
    /\ shResult.state = "pending"
    /\ shResult' = [state |-> "resolved",
                    text |-> formatShellOutput(shCall.command, shCall.stdout,
                                               shCall.stderr, shCall.exitCode)]
    /\ UNCHANGED shCall
    /\ UNCHANGED <<runVars, relayVars, rpcVars, sttVars, appVars>>

ExecSettles ==
    /\ shCall.op = "exec"
    /\ shResult.state = "pending"
    /\ shResult' = executeShellCommand(shCall.command, shCall.outcome)
    /\ UNCHANGED shCall
    /\ UNCHANGED <<runVars, relayVars, rpcVars, sttVars, appVars>>

\* The session runtime not started.
RunAtRest ==
    /\ pc = "idle"
    /\ startingMode = "undef"
    /\ mode = "none"
    /\ agentState = "unset"
    /\ sentMain = <<>>
    /\ cur = InitialCur("undef", "undef")
    /\ exitCode = -1
    /\ exitBy = "none"
    /\ switches = 0
    /\ nmsgs = 0
    /\ msgs = <<>>
    /\ metas = <<>>
    /\ traced = FALSE
    /\ queue = <<>>
    /\ batches = <<>>
    /\ discarded = {}
    /\ shells = {}
    /\ shellOut = <<>>
    /\ late = {}
    /\ mainTrace = <<>>
    /\ closes = 0
    /\ sessionReady = FALSE
    /\ claudeSid = "none"
    /\ childCode = -1
    /\ cleanups = <<>>
    /\ done = {}
    /\ offlineSessionId = "none"
    /\ reconn = "none"
    /\ cancelled = FALSE
    /\ polls = 0
    /\ scanner = {}
    /\ terminal = 0

InitShell ==
    /\ RunAtRest
    /\ RelayIdle
    /\ RpcIdle
    /\ SttIdle
    /\ AppIdle
    /\ shCall \in
        {[op |-> "format", command |-> cmd, stdout |-> o, stderr |-> e, exitCode |-> n] :
            cmd \in {<<"l", "s">>, <<"c", "a", "t", " ", "x">>}, o \in Outs, e \in Errs,
            n \in {0, 1, 0 - 1, 127}}
        \cup {[op |-> "exec", command |-> <<"l", "s">>, outcome |-> oc] : oc \in ExecOutcomes}
    /\ shResult = [state |-> "pending"]

NextShell == FormatReturns \/ ExecSettles

SpecShell == InitShell /\ [][NextShell]_vars

StartsWith(s, p) == Len(s) >= Len(p) /\ SubSeq(s, 1, Len(p)) = p

EndsWith(s, p) == Len(s) >= Len(p) /\ SubSeq(s, Len(s) - Len(p) + 1, Len(s)) = p

\* The block the claim describes, without a footer: each stream is left out
\* if empty and ends with a newline otherwise.
Block(command, stdout, stderr) ==
    LET terminated(s) ==
            IF s = <<>> THEN <<>>
            ELSE IF s[Len(s)] = "\n" THEN s ELSE Append(s, "\n")
    IN Header(command) \o terminated(stdout) \o terminated(stderr) \o Fence

\* C17: the formatted output is the opening fence, the line "$ <command>",
\* stdout and stderr, each newline-terminated if non-empty, and the closing
\* fence; the exit-code footer follows if and only if the exit code is not 0.
C17_FormatShellOutput ==
    (shCall.op = "format" /\ shResult.state = "resolved") =>
        LET block == Block(shCall.command, shCall.stdout, shCall.stderr)
        IN /\ StartsWith(shResult.text, block)
           /\ shCall.exitCode = 0 => shResult.text = block
           /\ shCall.exitCode # 0 => shResult.text = block \o Footer(shCall.exitCode)
           /\ EndsWith(shResult.text, <<"*">>) <=> shCall.exitCode # 0

\* A command that wrote to stdout without a final newline and to stderr with
\* one, and exited with -1: the footer is there.
C17_Witness ==
    /\ shCall.op = "format"
    /\ shResult.state = "resolved"
    /\ shCall.stdout = <<"o">>
    /\ shCall.stderr = <<"e", "\n">>
    /\ shCall.exitCode = 0 - 1
    /\ EndsWith(shResult.text, <<"-", "1", "*">>)

\* C19: whatever execAsync settles with, executeShellCommand resolves with a
\* formatted block for the command; an error that was killed or carries
\* ETIMEDOUT gives the timed-out message and exit code -1, and any other error
\* a footer with its numeric code or 1.
C19_ExecuteNeverRejects ==
    (shCall.op = "exec" /\ shResult.state # "pending") =>
        LET oc == shCall.outcome
        IN /\ shResult.state = "resolved"
           /\ StartsWith(shResult.text, Header(shCall.command))
           /\ oc.settled = "resolved" => shResult.text = Block(shCall.command, oc.stdout, oc.stderr)
           /\ (oc.settled = "rejected" /\ (oc.killed \/ oc.code = NameCode("ETIMEDOUT"))) =>
                shResult.text = Block(shCall.command, oc.stdout, TimedOutMessage) \o Footer(0 - 1)
           /\ (oc.settled = "rejected" /\ ~oc.killed /\ oc.code # NameCode("ETIMEDOUT")) =>
                /\ EndsWith(shResult.text,
                            Footer(IF oc.code.isNumber THEN oc.code.n ELSE 1))
                /\ ~EndsWith(shResult.text, Footer(0 - 1))

\* A command that hit the timeout after writing to stdout and stderr.
C19_Witness ==
    /\ shCall.op = "exec"
    /\ shResult.state = "resolved"
    /\ shCall.outcome.settled = "rejected"
    /\ shCall.outcome.code = NameCode("ETIMEDOUT")
    /\ ~shCall.outcome.killed
    /\ shCall.outcome.stderr = <<"e">>
    /\ shCall.outcome.stdout = <<"o">>

----------------------------------------------------------------------------
\* useSpeechToText, the native hook (part_005 lines 30-166), with the
\* recognition module as the hook sees it: start() asks for a session, which
\* reports start, results and end; abort() ends a running session, and may or
\* may not catch one that was asked for and has not reported start yet.

MaxStarts == 2
MaxEnds == 2

\* ExpoSpeechRecognitionModule.start (doStart, lines 51-59).
doStart(s) == IF s = "none" THEN "requested" ELSE s

\* The start handler with the test of wantListeningRef left out.
StartUnwantedNever(want) == FALSE

\* if (!wantListeningRef.current) in the start handler (line 64).
StartUnwanted(want) == ~want

Ended(n) == IF n < MaxEnds THEN n + 1 ELSE n

\* What has happened since stopListening, with one more thing.
Since(what) == IF stopped THEN sinceStop \cup {what} ELSE sinceStop

\* startListening up to its first await (lines 110-115).
StartListening ==
    /\ Len(starting) < MaxStarts
    /\ stopped' = FALSE
    /\ sinceStop' = {}
    /\ IF isStartingRef \/ wantListeningRef
       THEN /\ starting' = Append(starting, "done")
            /\ UNCHANGED <<wantListeningRef, isStartingRef>>
       ELSE /\ wantListeningRef' = TRUE
            /\ isStartingRef' = TRUE
            /\ starting' = Append(starting, "mic")
    /\ UNCHANGED <<isListening, interimTextRef, session, pendingEnd, lastEnd, overlap>>
    /\ UNCHANGED <<runVars, relayVars, rpcVars, shVars, appVars>>

\* requestMicrophonePermission settles (lines 115-125).
MicSettles ==
    \E i \in 1..Len(starting), granted \in BOOLEAN :
        /\ starting[i] = "mic"
        /\ IF ~granted
           THEN /\ isStartingRef' = FALSE
                /\ wantListeningRef' = FALSE
                /\ starting' = [starting EXCEPT ![i] = "done"]
           ELSE IF ~wantListeningRef
           THEN /\ isStartingRef' = FALSE
                /\ starting' = [starting EXCEPT ![i] = "done"]
                /\ UNCHANGED wantListeningRef
           ELSE /\ starting' = [starting EXCEPT ![i] = "speech"]
                /\ UNCHANGED <<isStartingRef, wantListeningRef>>
        /\ sinceStop' = Since("answer")
        /\ UNCHANGED <<isListening, interimTextRef, session, pendingEnd, stopped, lastEnd,
                       overlap>>
        /\ UNCHANGED <<runVars, relayVars, rpcVars, shVars, appVars>>

\* requestPermissionsAsync settles (lines 127-141).
SpeechSettles ==
    \E i \in 1..Len(starting), granted \in BOOLEAN :
        /\ starting[i] = "speech"
        /\ starting' = [starting EXCEPT ![i] = "done"]
        /\ IF ~granted
           THEN /\ isStartingRef' = FALSE
                /\ wantListeningRef' = FALSE
                /\ sinceStop' = Since("answer")
                /\ UNCHANGED <<interimTextRef, session, overlap>>
           ELSE IF ~wantListeningRef
           THEN /\ isStartingRef' = FALSE
                /\ sinceStop' = Since("answer")
                /\ UNCHANGED <<wantListeningRef, interimTextRef, session, overlap>>
           ELSE /\ interimTextRef' = FALSE
                /\ session' = doStart(session)
                /\ overlap' = (overlap \/ session # "none")
                /\ sinceStop' = Since("answer") \cup Since("doStart")
                /\ UNCHANGED <<isStartingRef, wantListeningRef>>
        /\ UNCHANGED <<isListening, pendingEnd, stopped, lastEnd>>
        /\ UNCHANGED <<runVars, relayVars, rpcVars, shVars, appVars>>

\* The start event (lines 63-71).
OnStart ==
    /\ session = "requested"
    /\ IF StartUnwanted(wantListeningRef)
       THEN /\ session' = "none"
            /\ pendingEnd' = Ended(pendingEnd)
            /\ UNCHANGED <<isStartingRef, isListening>>
       ELSE /\ session' = "running"
            /\ isStartingRef' = FALSE
            /\ isListening' = TRUE
            /\ UNCHANGED pendingEnd
    /\ sinceStop' = Since("start")
    /\ UNCHANGED <<wantListeningRef, interimTextRef, starting, stopped, lastEnd, overlap>>
    /\ UNCHANGED <<runVars, relayVars, rpcVars, shVars, appVars>>

\* The end event (lines 73-84): of the running session, which ended by itself,
\* or of a session that was aborted or failed earlier.
OnEnd ==
    \E natural \in BOOLEAN :
        /\ IF natural THEN session = "running" ELSE pendingEnd > 0
        /\ isStartingRef' = FALSE
        /\ IF wantListeningRef
           THEN /\ session' = doStart(IF natural THEN "none" ELSE session)
                /\ overlap' = (overlap \/ (~natural /\ session # "none"))
                /\ sinceStop' = Since("end") \cup Since("doStart")
                /\ UNCHANGED <<isListening, interimTextRef>>
           ELSE /\ session' = (IF natural THEN "none" ELSE session)
                /\ isListening' = FALSE
                /\ interimTextRef' = FALSE
                /\ sinceStop' = Since("end")
                /\ UNCHANGED overlap
        /\ pendingEnd' = (IF natural THEN pendingEnd ELSE pendingEnd - 1)
        /\ lastEnd' = [handled |-> TRUE, natural |-> natural, want |-> wantListeningRef,
                       restarted |-> session' = "requested"]
        /\ UNCHANGED <<wantListeningRef, starting, stopped>>
        /\ UNCHANGED <<runVars, relayVars, rpcVars, shVars, appVars>>

\* The result event (lines 86-98), of the running session or late.
OnResult ==
    \E isFinal \in BOOLEAN :
        /\ session = "running" \/ pendingEnd > 0
        /\ interimTextRef' = ~isFinal
        /\ sinceStop' = Since("result")
        /\ UNCHANGED <<isListening, wantListeningRef, isStartingRef, session, pendingEnd,
                       starting, stopped, lastEnd, overlap>>
        /\ UNCHANGED <<runVars, relayVars, rpcVars, shVars, appVars>>

\* The error event (lines 100-106); the failed session's end event follows.
OnError ==
    /\ session \in {"requested", "running"}
    /\ session' = "none"
    /\ pendingEnd' = Ended(pendingEnd)
    /\ isStartingRef' = FALSE
    /\ wantListeningRef' = FALSE
    /\ isListening' = FALSE
    /\ interimTextRef' = FALSE
    /\ sinceStop' = Since("error")
    /\ UNCHANGED <<starting, stopped, lastEnd, overlap>>
    /\ UNCHANGED <<runVars, relayVars, rpcVars, shVars, appVars>>

\* stopListening (lines 143-156).
StopListening ==
    \E caught \in BOOLEAN :
        /\ wantListeningRef' = FALSE
        /\ isStartingRef' = FALSE
        /\ isListening' = FALSE
        /\ interimTextRef' = FALSE
        /\ stopped' = TRUE
        /\ sinceStop' = {}
        /\ IF session = "running" \/ (session = "requested" /\ caught)
           THEN /\ session' = "none"
                /\ pendingEnd' = Ended(pendingEnd)
           ELSE UNCHANGED <<session, pendingEnd>>
        /\ UNCHANGED <<starting, lastEnd, overlap>>
        /\ UNCHANGED <<runVars, relayVars, rpcVars, shVars, appVars>>

InitStt ==
    /\ RunAtRest
    /\ RelayIdle
    /\ RpcIdle
    /\ ShellIdle
    /\ SttIdle
    /\ AppIdle

NextStt ==
    \/ StartListening
    \/ MicSettles
    \/ SpeechSettles
    \/ OnStart
    \/ OnEnd
    \/ OnResult
    \/ OnError
    \/ StopListening

SpecStt == InitStt /\ [][NextStt]_vars

\* C20: from stopListening to the next startListening call, isListening is
\* false, no recognition session runs and none is started, whatever late
\* events and permission answers arrive; and an end event of a session that
\* ended by itself while the user wants to listen restarts recognition.
C20_StopStaysStopped ==
    /\ stopped =>
        /\ ~isListening
        /\ session # "running"
        /\ "doStart" \notin sinceStop
    /\ (lastEnd.handled /\ lastEnd.natural /\ lastEnd.want) => lastEnd.restarted

\* Since the stop, a permission prompt from before it was answered and late
\* start, result and end events were handled.
C20_Witness ==
    /\ stopped
    /\ {"answer", "start", "result", "end"} \subseteq sinceStop
    /\ lastEnd.handled
    /\ ~isListening
    /\ session = "none"

\* C27, as claimed: recognition start is never requested while a session
\* requested earlier is still starting or active.
C27_OneSessionAtATime == ~overlap

----------------------------------------------------------------------------
\* Termination triggers racing with each other and with the post-loop
\* shutdown.

\* The session-death events sent so far, by the post-loop shutdown and by
\* every cleanup.
Deaths ==
    Cardinality({i \in 1..Len(sentMain) : sentMain[i].t = "death"})
    + Cardinality({c \in 1..Len(cleanups) : HasDeath(cleanups[c].sent)})

\* C25, as claimed: whatever the interleaving of termination triggers and the
\* post-loop shutdown, session-death is sent at most once and the sync client
\* is closed at most once.
C25_DeathAndCloseOnce == Deaths <= 1 /\ closes <= 1

\* C26, as claimed: when the process has exited after the servers were started
\* (by the post-loop shutdown, by a trigger's cleanup or by cleanup's catch),
\* the tool server and the hook server were stopped and the hook settings file
\* was removed.
C26_ServersStopped ==
    (pc = "exited" /\ exitBy \in Triggers \cup {"main", "cleanupError"})
    => {"happyServer", "hookServer", "hookSettings"} \subseteq done

----------------------------------------------------------------------------
\* useUserMessageHistory (part_005 lines 185-272). A text is a pair: the text
\* of the i-th message in the store is <<"m", i>>, a draft is <<"d", 0>>, the
\* empty string or the text of a message.

MaxHistory == 3

MessageValues == [kind : {"user-text", "agent-text"}, createdAt : 1..2]

Drafts == {Empty, <<"d", 0>>, <<"m", 1>>}

\* userMessages.sort((a, b) => b.time - a.time) on the indices of the user
\* messages: latest first, equal times in the order of the store.
RECURSIVE SortByTimeDesc(_, _)
SortByTimeDesc(ms, S) ==
    IF S = {} THEN <<>>
    ELSE LET first == CHOOSE i \in S : \A j \in S :
                        \/ ms[i].createdAt > ms[j].createdAt
                        \/ (ms[i].createdAt = ms[j].createdAt /\ i <= j)
         IN <<first>> \o SortByTimeDesc(ms, S \ {first})

\* getHistory (lines 190-213): the texts of the user messages, latest first.
getHistory(ms) ==
    LET sorted == SortByTimeDesc(ms, {i \in 1..Len(ms) : ms[i].kind = "user-text"})
    IN [k \in 1..Len(sorted) |-> <<"m", sorted[k]>>]

\* navigateUp saving the draft on every call.
SavesDraftAlways(index, currentDraft) == currentDraft # Undefined

\* historyIndex === -1 && currentDraft !== undefined (line 226).
SavesDraft(index, currentDraft) == index = 0 - 1 /\ currentDraft # Undefined

\* navigateUp (lines 221-237); history[newIndex] counts from 0.
NavigateUp ==
    \E currentDraft \in Drafts \cup {Undefined} :
        LET history == getHistory(messages)
            moves == historyIndex < Len(history) - 1
        IN /\ savedDraft' = IF SavesDraft(historyIndex, currentDraft)
                            THEN currentDraft ELSE savedDraft
           /\ historyIndex' = IF moves THEN historyIndex + 1 ELSE historyIndex
           /\ lastCall' = [op |-> "up", before |-> historyIndex,
                           ret |-> IF moves THEN history[historyIndex + 2] ELSE Null]
           /\ walk' = IF ~moves THEN walk
                      ELSE IF historyIndex = 0 - 1
                      THEN IF currentDraft = Undefined THEN NoWalk
                           ELSE [on |-> TRUE, draft |-> currentDraft, ups |-> 1, downs |-> 0]
                      ELSE IF walk.on /\ walk.downs = 0 THEN [walk EXCEPT !.ups = @ + 1]
                      ELSE NoWalk
           /\ UNCHANGED messages
           /\ UNCHANGED <<coreVars, gitVars, upVars, webVars>>

\* navigateDown (lines 243-260).
NavigateDown ==
    LET history == getHistory(messages)
    IN /\ IF historyIndex > 0 - 1
          THEN /\ historyIndex' = historyIndex - 1
               /\ IF historyIndex - 1 = 0 - 1
                  THEN /\ savedDraft' = Empty
                       /\ lastCall' = [op |-> "down", before |-> historyIndex,
                                       ret |-> savedDraft]
                  ELSE /\ lastCall' = [op |-> "down", before |-> historyIndex,
                                       ret |-> history[historyIndex]]
                       /\ UNCHANGED savedDraft
               /\ walk' = IF walk.on THEN [walk EXCEPT !.downs = @ + 1] ELSE walk
          ELSE /\ lastCall' = [op |-> "down", before |-> historyIndex, ret |-> Null]
               /\ walk' = NoWalk
               /\ UNCHANGED <<historyIndex, savedDraft>>
       /\ UNCHANGED messages
       /\ UNCHANGED <<coreVars, gitVars, upVars, webVars>>

\* reset (lines 266-271).
Reset ==
    /\ lastCall.op # "reset"
    /\ lastCall' = [op |-> "reset", before |-> historyIndex, ret |-> savedDraft]
    /\ historyIndex' = 0 - 1
    /\ savedDraft' = Empty
    /\ walk' = NoWalk
    /\ UNCHANGED messages
    /\ UNCHANGED <<coreVars, gitVars, upVars, webVars>>

InitHist ==
    /\ RunAtRest
    /\ RelayIdle
    /\ RpcIdle
    /\ ShellIdle
    /\ SttIdle
    /\ GitIdle
    /\ UploadIdle
    /\ WebIdle
    /\ messages \in UNION {[1..n -> MessageValues] : n \in 0..MaxHistory}
    /\ historyIndex = 0 - 1
    /\ savedDraft = Empty
    /\ lastCall = NoCall
    /\ walk = NoWalk

NextHist == NavigateUp \/ NavigateDown \/ Reset

SpecHist == InitHist /\ [][NextHist]_vars

\* C22: with the history unchanged, k >= 1 successful navigateUp calls from
\* idle with draft d followed by k navigateDown calls end idle, the last one
\* returning d; the index stays within [-1, length - 1]; navigateUp at the
\* oldest entry and navigateDown when idle return null without moving.
C22_HistoryRoundTrip ==
    LET n == Len(getHistory(messages))
    IN /\ historyIndex \in (0 - 1)..(n - 1)
       /\ (walk.on /\ walk.ups >= 1 /\ walk.downs = walk.ups) =>
            /\ historyIndex = 0 - 1
            /\ lastCall.op = "down"
            /\ lastCall.ret = walk.draft
       /\ (walk.on /\ walk.downs < walk.ups) => historyIndex = walk.ups - walk.downs - 1
       /\ (lastCall.op = "up" /\ lastCall.before = n - 1) =>
            lastCall.ret = Null /\ historyIndex = lastCall.before
       /\ (lastCall.op = "down" /\ lastCall.before = 0 - 1) =>
            lastCall.ret = Null /\ historyIndex = 0 - 1

\* Two steps up from idle with draft d and two steps down: idle again, d
\* returned.
C22_Witness ==
    /\ walk.on
    /\ walk.ups = 2
    /\ walk.downs = 2
    /\ walk.draft = <<"d", 0>>
    /\ lastCall = [op |-> "down", before |-> 0, ret |-> <<"d", 0>>]
    /\ historyIndex = 0 - 1

----------------------------------------------------------------------------
\* GitStatusSync (gitStatusSync.ts lines 34-119): project syncs shared by the
\* sessions of one project key. A sync is a position in syncs; 0 is no sync
\* and also the no-op sync handed to a session without a key.

MaxSyncs == 3

\* stop that never finds another session.
HasOtherSessionsNever(map, key) == FALSE

\* Array.from(this.sessionToProjectKey.values()).includes(projectKey)
\* (lines 106-108).
HasOtherSessions(map, key) == \E s \in GitSessions : map[s] = key

\* The session's metadata, with machineId and path, arrives in the store.
MetadataArrives ==
    \E s \in GitSessions, k \in ProjectKeys :
        /\ projectKey[s] = "none"
        /\ projectKey' = [projectKey EXCEPT ![s] = k]
        /\ UNCHANGED <<sessionToProjectKey, projectSyncMap, syncs, got>>
        /\ UNCHANGED <<coreVars, histVars, upVars, webVars>>

\* getSync (lines 64-82).
GetSync ==
    \E s \in GitSessions :
        LET key == projectKey[s]
        IN IF key = "none"
           THEN /\ got' = [got EXCEPT ![s] = 0]
                /\ got[s] # 0
                /\ UNCHANGED <<projectKey, sessionToProjectKey, projectSyncMap, syncs>>
                /\ UNCHANGED <<coreVars, histVars, upVars, webVars>>
           ELSE /\ sessionToProjectKey' = [sessionToProjectKey EXCEPT ![s] = key]
                /\ IF projectSyncMap[key] = 0
                   THEN /\ Len(syncs) < MaxSyncs
                        /\ syncs' = Append(syncs, [key |-> key, state |-> "running"])
                        /\ projectSyncMap' = [projectSyncMap EXCEPT ![key] = Len(syncs) + 1]
                        /\ got' = [got EXCEPT ![s] = Len(syncs) + 1]
                   ELSE /\ got' = [got EXCEPT ![s] = projectSyncMap[key]]
                        /\ UNCHANGED <<projectSyncMap, syncs>>
                /\ UNCHANGED projectKey
                /\ UNCHANGED <<coreVars, histVars, upVars, webVars>>

\* stop (lines 100-119).
GitStop ==
    \E s \in GitSessions :
        LET key == sessionToProjectKey[s]
            rest == [sessionToProjectKey EXCEPT ![s] = "none"]
        IN /\ key # "none"
           /\ sessionToProjectKey' = rest
           /\ IF ~HasOtherSessions(rest, key) /\ projectSyncMap[key] # 0
              THEN /\ syncs' = [syncs EXCEPT ![projectSyncMap[key]].state = "stopped"]
                   /\ projectSyncMap' = [projectSyncMap EXCEPT ![key] = 0]
              ELSE UNCHANGED <<projectSyncMap, syncs>>
           /\ got' = [got EXCEPT ![s] = 0 - 1]
           /\ UNCHANGED projectKey
           /\ UNCHANGED <<coreVars, histVars, upVars, webVars>>

InitGit ==
    /\ RunAtRest
    /\ RelayIdle
    /\ RpcIdle
    /\ ShellIdle
    /\ SttIdle
    /\ HistIdle
    /\ GitIdle
    /\ UploadIdle
    /\ WebIdle

NextGit == MetadataArrives \/ GetSync \/ GitStop

SpecGit == InitGit /\ [][NextGit]_vars

\* C23: per project key at most one sync runs; the sessions registered for one
\* key were all handed the same sync, the one in the map; the sync of a key runs
\* while some registered session maps to the key, and is stopped and removed
\* once none does.
C23_OneSyncPerProject ==
    /\ \A i, j \in 1..Len(syncs) :
          (syncs[i].state = "running" /\ syncs[j].state = "running"
           /\ syncs[i].key = syncs[j].key) => i = j
    /\ \A s1, s2 \in GitSessions :
          (sessionToProjectKey[s1] # "none" /\ sessionToProjectKey[s1] = sessionToProjectKey[s2])
          => (got[s1] = got[s2] /\ got[s1] = projectSyncMap[sessionToProjectKey[s1]])
    /\ \A k \in ProjectKeys :
          (\E s \in GitSessions : sessionToProjectKey[s] = k)
          <=> (projectSyncMap[k] # 0 /\ syncs[projectSyncMap[k]] = [key |-> k, state |-> "running"])
    /\ \A i \in 1..Len(syncs) :
          syncs[i].state = "running" <=> projectSyncMap[syncs[i].key] = i

\* Two sessions shared the sync of one key, one of them was stopped and the
\* sync kept running for the other; an earlier sync of the key was stopped with
\* its last session.
C23_Witness ==
    /\ Len(syncs) = 2
    /\ syncs[1] = [key |-> "m1:/p", state |-> "stopped"]
    /\ syncs[2] = [key |-> "m1:/p", state |-> "running"]
    /\ sessionToProjectKey["a"] = "none"
    /\ got["a"] = 0 - 1
    /\ sessionToProjectKey["b"] = "m1:/p"
    /\ got["b"] = 2
    /\ projectKey["a"] = "m1:/p"

----------------------------------------------------------------------------
\* uploadImage (formatUsage.ts lines 132-176) for one session, with calls that
\* may overlap: each await of an RPC is a step of its own.

MaxUploads == 2

MAX_BASE64_SIZE == 400000

UploadDirs == {"d1", "d2"}

\* base64 data: its length and its first characters (JPEG, PNG, GIF).
Images == [length : {100, MAX_BASE64_SIZE, MAX_BASE64_SIZE + 1},
           head : {"/9j/", "iVBOR", "R0lGO"}]

\* isValidImageBase64 (lines 58-62).
isValidImageBase64(head) == head = "/9j/" \/ head = "iVBOR"

\* A cache that keeps the directory whose write failed.
AfterCachedFailureKeeps(cached) == cached

\* uploadDirCache.delete(sessionId) after the cached write failed (line 159).
AfterCachedFailure(cached) == "none"

Upload(at, dir, hadCache, gets, writes) ==
    [at |-> at, dir |-> dir, hadCache |-> hadCache, gets |-> gets, writes |-> writes,
     touched |-> FALSE, others |-> FALSE, cacheAtFail |-> FALSE]

\* uploadImage up to its first await (lines 136-153): validation,
\* evictStaleCache, and the write into the cached directory or getUploadDir.
UploadImage ==
    \E image \in Images, evicted \in BOOLEAN :
        /\ Len(uploads) < MaxUploads
        /\ IF image.length > MAX_BASE64_SIZE \/ ~isValidImageBase64(image.head)
           THEN /\ uploads' = Append(uploads, Upload("rejected", "none", FALSE, 0, 0))
                /\ UNCHANGED uploadDirCache
           ELSE LET cached == IF evicted THEN "none" ELSE uploadDirCache
                IN /\ uploadDirCache' = cached
                   /\ uploads' = Append(uploads,
                        IF cached # "none"
                        THEN [Upload("cachedWrite", cached, TRUE, 0, 1)
                                EXCEPT !.touched = cached # uploadDirCache]
                        ELSE [Upload("getUploadDir", "none", FALSE, 1, 0)
                                EXCEPT !.touched = cached # uploadDirCache])
        /\ UNCHANGED written
        /\ UNCHANGED <<coreVars, histVars, gitVars, webVars>>

\* writeImageFile settles (lines 87-112, 153-159, 166-171).
WriteSettles ==
    \E i \in 1..Len(uploads), ok \in BOOLEAN :
        /\ uploads[i].at \in {"cachedWrite", "freshWrite"}
        /\ IF ok
           THEN /\ written' = written \cup {uploads[i].dir}
                /\ IF uploads[i].at = "freshWrite"
                   THEN /\ uploadDirCache' = uploads[i].dir
                        /\ uploads' = [j \in 1..Len(uploads) |->
                             IF j = i THEN [uploads[j] EXCEPT !.at = "returned", !.touched = TRUE]
                             ELSE IF uploads[j].at \in {"cachedWrite", "getUploadDir", "freshWrite"}
                             THEN [uploads[j] EXCEPT !.others = TRUE]
                             ELSE uploads[j]]
                   ELSE /\ uploads' = [uploads EXCEPT ![i].at = "returned"]
                        /\ UNCHANGED uploadDirCache
           ELSE /\ UNCHANGED written
                /\ IF uploads[i].at = "cachedWrite"
                   THEN /\ uploadDirCache' = AfterCachedFailure(uploadDirCache)
                        /\ uploads' = [uploads EXCEPT ![i].at = "getUploadDir",
                                                      ![i].gets = @ + 1,
                                                      ![i].touched = TRUE]
                   ELSE /\ uploads' = [uploads EXCEPT ![i].at = "failed",
                                            ![i].cacheAtFail = uploadDirCache # "none"]
                        /\ UNCHANGED uploadDirCache
        /\ UNCHANGED <<coreVars, histVars, gitVars, webVars>>

\* getUploadDir settles (lines 65-84, 163-173): a path, or null on a failure.
GetUploadDirSettles ==
    \E i \in 1..Len(uploads), tempDir \in UploadDirs \cup {"null"} :
        /\ uploads[i].at = "getUploadDir"
        /\ uploads' = IF tempDir = "null"
                      THEN [uploads EXCEPT ![i].at = "failed",
                                           ![i].cacheAtFail = uploadDirCache # "none"]
                      ELSE [uploads EXCEPT ![i].at = "freshWrite", ![i].dir = tempDir,
                                           ![i].writes = @ + 1]
        /\ UNCHANGED <<uploadDirCache, written>>
        /\ UNCHANGED <<coreVars, histVars, gitVars, webVars>>

InitUpload ==
    /\ RunAtRest
    /\ RelayIdle
    /\ RpcIdle
    /\ ShellIdle
    /\ SttIdle
    /\ HistIdle
    /\ GitIdle
    /\ WebIdle
    /\ uploadDirCache \in UploadDirs \cup {"none"}
    /\ uploads = <<>>
    /\ written = IF uploadDirCache = "none" THEN {} ELSE {uploadDirCache}

NextUpload == UploadImage \/ WriteSettles \/ GetUploadDirSettles

SpecUpload == InitUpload /\ [][NextUpload]_vars

\* What both readings of the claim share: a rejected call made no RPC and
\* left the cache alone; a call makes at most one getUploadDir call and two
\* writes, the second only after the write into the cached directory failed;
\* the cached directory is one a write succeeded into.
UploadsInOrder ==
    /\ \A i \in 1..Len(uploads) :
          LET u == uploads[i]
          IN /\ u.at = "rejected" => (u.gets = 0 /\ u.writes = 0 /\ ~u.touched)
             /\ u.gets <= 1 /\ u.writes <= 2
             /\ u.hadCache => u.writes >= 1
             /\ u.writes = 2 => (u.hadCache /\ u.gets = 1)
             /\ (u.gets = 1 /\ u.hadCache) => u.at \in {"getUploadDir", "freshWrite", "returned", "failed"}
    /\ uploadDirCache # "none" => uploadDirCache \in written

\* C24, as claimed: after any call that failed with "Failed to upload image"
\* the session has no cache entry.
C24_NoCacheAfterFailure ==
    /\ UploadsInOrder
    /\ \A i \in 1..Len(uploads) : uploads[i].at = "failed" => ~uploads[i].cacheAtFail

\* C24, amended: after a call that failed the session has no cache entry,
\* unless another upload that overlapped with it cached a directory after a
\* successful write.
C24_NoOwnCacheAfterFailure ==
    /\ UploadsInOrder
    /\ \A i \in 1..Len(uploads) :
          (uploads[i].at = "failed" /\ uploads[i].cacheAtFail) => uploads[i].others

\* An upload found a cached directory, failed to write into it, asked for a
\* fresh one and failed again, while another upload cached its directory.
C24_Witness ==
    /\ Len(uploads) = 2
    /\ uploads[1].at = "failed"
    /\ uploads[1].hadCache
    /\ uploads[1].writes = 2
    /\ uploads[1].cacheAtFail
    /\ uploads[2].at = "returned"
    /\ uploadDirCache = "d2"

----------------------------------------------------------------------------
\* useSpeechToText, the web hook (useSpeechToText.web.ts lines 28-250). Every
\* startListening call is a position in recordings; the stream and the
\* recorder it makes carry that position.

MaxRecordings == 2
MaxRequests == 2
MaxChunks == 2

Recording(at) == [at |-> at, tracks |-> "none", handlers |-> FALSE]

\* cleanupMedia (lines 46-63) on the recordings: the recorder in
\* mediaRecorderRef loses its handlers, the tracks of the stream in
\* mediaStreamRef are stopped, which ends a recorder still recording from it.
Cleaned(recs) ==
    [i \in 1..Len(recs) |->
        [at |-> IF i = mediaStreamRef /\ recs[i].at \in {"recording", "stopping"}
                THEN "ended" ELSE recs[i].at,
         tracks |-> IF i = mediaStreamRef THEN "stopped" ELSE recs[i].tracks,
         handlers |-> IF i = mediaRecorderRef THEN FALSE ELSE recs[i].handlers]]

\* cleanupMedia on the refs, the chunks and the interim text.
CleanupRefs ==
    /\ mediaRecorderRef' = 0
    /\ mediaStreamRef' = 0
    /\ chunksRef' = 0
    /\ interimTranscript' = 0

\* recorder.ondataavailable up to the request (lines 130-138): the chunks
\* after the event, and whether an interim request is issued.
ChunksAfter(nonEmpty) ==
    IF nonEmpty /\ chunksRef < MaxChunks THEN chunksRef + 1 ELSE chunksRef

Fires(nonEmpty) == ~isStoppedRef /\ ChunksAfter(nonEmpty) > 0

\* startListening up to its await (lines 87-92).
WebStartListening ==
    /\ mounted
    /\ Len(recordings) < MaxRecordings
    /\ recordings' = Append(recordings,
            IF webListening \/ mediaRecorderRef # 0
            THEN Recording("returned") ELSE Recording("getUserMedia"))
    /\ UNCHANGED <<webListening, mediaRecorderRef, mediaStreamRef, chunksRef, isStoppedRef,
                   interimCounterRef, requests, interimTranscript, lastUpdate, finalInterim,
                   mounted>>
    /\ UNCHANGED <<coreVars, histVars, gitVars, upVars>>

\* getUserMedia settles (lines 92-128, 210-218): denied, or a stream for which
\* the recorder cannot be made, or a stream that is recorded.
GetUserMediaSettles ==
    \E i \in 1..Len(recordings), outcome \in {"denied", "throws", "recorded"} :
        /\ recordings[i].at = "getUserMedia"
        /\ IF outcome = "denied"
           THEN /\ recordings' = [recordings EXCEPT ![i].at = "denied"]
                /\ UNCHANGED <<webListening, mediaRecorderRef, mediaStreamRef, chunksRef,
                               isStoppedRef, interimCounterRef, interimTranscript>>
           ELSE IF outcome = "throws"
           THEN /\ webListening' = FALSE
                /\ recordings' =
                     [j \in 1..Len(recordings) |->
                        [at |-> IF j = i THEN "ended" ELSE recordings[j].at,
                         tracks |-> IF j = i THEN "stopped" ELSE recordings[j].tracks,
                         handlers |-> IF j = mediaRecorderRef THEN FALSE
                                      ELSE recordings[j].handlers]]
                /\ CleanupRefs
                /\ UNCHANGED <<isStoppedRef, interimCounterRef>>
           ELSE /\ mediaStreamRef' = i
                /\ mediaRecorderRef' = i
                /\ chunksRef' = 0
                /\ isStoppedRef' = FALSE
                /\ interimCounterRef' = 0
                /\ webListening' = TRUE
                /\ interimTranscript' = 0
                /\ recordings' = [recordings EXCEPT
                        ![i] = [at |-> "recording", tracks |-> "live", handlers |-> TRUE]]
        /\ UNCHANGED <<requests, lastUpdate, finalInterim, mounted>>
        /\ UNCHANGED <<coreVars, histVars, gitVars, upVars>>

\* A timeslice dataavailable event (lines 130-167).
DataAvailable ==
    \E i \in 1..Len(recordings), nonEmpty \in BOOLEAN :
        /\ recordings[i].at = "recording"
        /\ recordings[i].handlers
        /\ chunksRef' = ChunksAfter(nonEmpty)
        /\ IF Fires(nonEmpty)
           THEN /\ Len(requests) < MaxRequests
                /\ interimCounterRef' = interimCounterRef + 1
                /\ requests' = Append(requests,
                        [myCounter |-> interimCounterRef + 1, pending |-> TRUE])
           ELSE UNCHANGED <<interimCounterRef, requests>>
        /\ UNCHANGED <<webListening, mediaRecorderRef, mediaStreamRef, isStoppedRef,
                       recordings, interimTranscript, lastUpdate, finalInterim, mounted>>
        /\ UNCHANGED <<coreVars, histVars, gitVars, upVars>>

\* An interim transcription settles (lines 143-165).
InterimSettles ==
    \E r \in 1..Len(requests), hasText \in BOOLEAN :
        /\ requests[r].pending
        /\ requests' = [requests EXCEPT ![r].pending = FALSE]
        /\ IF requests[r].myCounter = interimCounterRef /\ hasText
           THEN /\ interimTranscript' = r
                /\ lastUpdate' = [req |-> r, issued |-> Len(requests)]
           ELSE UNCHANGED <<interimTranscript, lastUpdate>>
        /\ UNCHANGED <<webListening, mediaRecorderRef, mediaStreamRef, chunksRef,
                       isStoppedRef, interimCounterRef, recordings, finalInterim, mounted>>
        /\ UNCHANGED <<coreVars, histVars, gitVars, upVars>>

\* recorder.onerror (lines 170-173).
RecorderError ==
    \E i \in 1..Len(recordings) :
        /\ recordings[i].at = "recording"
        /\ recordings[i].handlers
        /\ webListening' = FALSE
        /\ recordings' = [Cleaned(recordings) EXCEPT ![i].at = "ended"]
        /\ CleanupRefs
        /\ UNCHANGED <<isStoppedRef, interimCounterRef, requests, lastUpdate, finalInterim,
                       mounted>>
        /\ UNCHANGED <<coreVars, histVars, gitVars, upVars>>

\* stopListening (lines 221-239).
WebStopListening ==
    /\ mounted
    /\ isStoppedRef' = TRUE
    /\ IF mediaRecorderRef # 0 /\ recordings[mediaRecorderRef].at = "recording"
       THEN /\ recordings' = [recordings EXCEPT ![mediaRecorderRef].at = "stopping"]
            /\ UNCHANGED <<webListening, mediaRecorderRef, mediaStreamRef, chunksRef,
                           interimTranscript>>
       ELSE /\ webListening' = FALSE
            /\ recordings' = Cleaned(recordings)
            /\ CleanupRefs
    /\ UNCHANGED <<interimCounterRef, requests, lastUpdate, finalInterim, mounted>>
    /\ UNCHANGED <<coreVars, histVars, gitVars, upVars>>

\* The stopped recorder fires its final dataavailable event and its stop event
\* (lines 130-167, 175-199); without handlers nobody hears them.
RecorderStopped ==
    \E i \in 1..Len(recordings), nonEmpty \in BOOLEAN :
        /\ recordings[i].at = "stopping"
        /\ IF recordings[i].handlers
           THEN /\ chunksRef' = ChunksAfter(nonEmpty)
                /\ IF Fires(nonEmpty)
                   THEN /\ Len(requests) < MaxRequests
                        /\ interimCounterRef' = interimCounterRef + 1
                        /\ requests' = Append(requests,
                                [myCounter |-> interimCounterRef + 1, pending |-> TRUE])
                        /\ finalInterim' = TRUE
                   ELSE UNCHANGED <<interimCounterRef, requests, finalInterim>>
                /\ webListening' = FALSE
                /\ recordings' = [recordings EXCEPT ![i].at = "transcribing"]
           ELSE /\ recordings' = [recordings EXCEPT ![i].at = "ended"]
                /\ UNCHANGED <<chunksRef, interimCounterRef, requests, finalInterim,
                               webListening>>
        /\ UNCHANGED <<mediaRecorderRef, mediaStreamRef, isStoppedRef, interimTranscript,
                       lastUpdate, mounted>>
        /\ UNCHANGED <<coreVars, histVars, gitVars, upVars>>

\* onstop's transcription settles, or there was nothing to transcribe; the
\* finally runs cleanupMedia (lines 182-207).
TranscriptionSettles ==
    \E i \in 1..Len(recordings) :
        /\ recordings[i].at = "transcribing"
        /\ recordings' = [Cleaned(recordings) EXCEPT ![i].at = "ended"]
        /\ CleanupRefs
        /\ UNCHANGED <<webListening, isStoppedRef, interimCounterRef, requests, lastUpdate,
                       finalInterim, mounted>>
        /\ UNCHANGED <<coreVars, histVars, gitVars, upVars>>

\* The unmount effect (lines 241-247).
Unmount ==
    /\ mounted
    /\ mounted' = FALSE
    /\ isStoppedRef' = TRUE
    /\ webListening' = FALSE
    /\ recordings' = Cleaned(recordings)
    /\ CleanupRefs
    /\ UNCHANGED <<interimCounterRef, requests, lastUpdate, finalInterim>>
    /\ UNCHANGED <<coreVars, histVars, gitVars, upVars>>

InitWeb ==
    /\ RunAtRest
    /\ RelayIdle
    /\ RpcIdle
    /\ ShellIdle
    /\ SttIdle
    /\ HistIdle
    /\ GitIdle
    /\ UploadIdle
    /\ WebIdle

NextWeb ==
    \/ WebStartListening
    \/ GetUserMediaSettles
    \/ DataAvailable
    \/ InterimSettles
    \/ RecorderError
    \/ WebStopListening
    \/ RecorderStopped
    \/ TranscriptionSettles
    \/ Unmount

SpecWeb == InitWeb /\ [][NextWeb]_vars

\* C21, as claimed: an interim response updates interimTranscript only if no
\* interim request was issued after its own, and the final chunk of a stopped
\* recorder triggers no interim request.
C21_LatestInterimOnly ==
    /\ lastUpdate.req = lastUpdate.issued
    /\ ~finalInterim

\* C28, as claimed: at most one stream has live tracks and at most one
\* recorder records at any time, and the tracks of a recording that has ended
\* are stopped.
C28_OneRecorderOneStream ==
    /\ Cardinality({i \in 1..Len(recordings) : recordings[i].tracks = "live"}) <= 1
    /\ Cardinality({i \in 1..Len(recordings) : recordings[i].at = "recording"}) <= 1
    /\ \A i \in 1..Len(recordings) :
          recordings[i].at = "ended" => recordings[i].tracks = "stopped"

====
